---- MODULE Spec2Model ----
(***************************************************************************)
(* A model of the SWIFT adversarial mock server, variant v2                *)
(* (swift-mock-server/swift_mock_server_v2.py), and of the message builder *)
(* of its test client (swift-mock-server/test_adversarial.py).             *)
(*                                                                         *)
(* A FIN message is a record of the parts the server's regular expressions *)
(* look at: the header blocks, the block-4 fields and the block-5 trailer. *)
(* SHA-256 is modelled as an ideal hash: a digest is the record of the     *)
(* function and of the text it was computed over, so two digests are equal *)
(* exactly when they were computed by the same function over the same      *)
(* text.  Timestamps (:177:, the payment fields :32A:, :50K:, :59:) carry  *)
(* no decision of the server and are left out of the record.               *)
(***************************************************************************)
EXTENDS Integers, Sequences, FiniteSets, TLC

(***************************************************************************)
(* Bounds of the model.                                                    *)
(***************************************************************************)
\* sequence numbers a client declares in field 34 are 0..MaxSeq
MaxSeq == 3
\* inbound messages processed in one run
MaxMsgs == 3
\* length of the ignored_sequences list
MaxIgnored == 1
\* restarts of the process in one behaviour
MaxRestarts == 1
\* injections of each error mode in one behaviour of the threads
MaxInjections == 1
\* inbound messages of one behaviour in the audit-log specification
AuditMsgs == 501
\* log_message and save_state keep the last 1000 audit entries
LogCap == 1000
\* v3 saves its state when message_count is a multiple of 10
SaveEvery == 10

\* session ids, f"SESSION-{addr[0]}-{addr[1]}": one per remote endpoint
SessionIds == {"SESSION-A", "SESSION-B"}

\* an optional value: absent, or present with a value
None == <<>>
Some(x) == <<x>>
Has(o) == o # <<>>
Val(o) == o[1]

(***************************************************************************)
(* Trailer codec.                                                          *)
(***************************************************************************)
\* a value of a block-5 sub-field that is no digest at all
NoDigest == [fn |-> "NONE", over |-> <<>>, flip |-> 0, hex |-> FALSE]
\* a message without block 5
NoTrailer == [shape |-> "none", mac |-> NoDigest, chk |-> NoDigest]

\* re.sub(r'\{5:.*?\}\}$', '', message): every trailer shape of the model
\* starts with "{5:" and ends with "}}", so the whole trailer is removed
StripTrailer(message) == [message EXCEPT !.tr = NoTrailer]

\* sha256(message without trailer)[:12].upper()
calculate_swift_checksum(message) ==
    [fn |-> "CHK", over |-> StripTrailer(message), flip |-> 0, hex |-> TRUE]

\* sha256(message + "MOCK_SECRET_KEY")[:16].upper(): over the message as
\* given, its trailer included when it has one
calculate_mac(message) ==
    [fn |-> "MAC", over |-> message, flip |-> 0, hex |-> TRUE]

\* re.search(r'\{5:\{MAC:([A-F0-9]+)\}\{CHK:([A-F0-9]+)\}\}', message):
\* "{5:{MAC:m}{CHK:c}}" (std), the same followed by one more "}" (extra) or
\* by a further message (joined) match; "{5:{MAC:m}{CHK:c}{TNG:}}" (tng) and
\* "{5:{CHK:c}{MAC:m}}" (swapped) do not
Block5Found(message) ==
    /\ message.tr.shape \in {"std", "extra", "joined"}
    /\ message.tr.mac.hex
    /\ message.tr.chk.hex

validate_trailer(message) ==
    IF ~Block5Found(message)
    THEN [ok |-> FALSE, reason |-> "Missing Block 5 trailer"]
    ELSE IF message.tr.chk # calculate_swift_checksum(message)
    THEN [ok |-> FALSE, reason |-> "Checksum mismatch"]
    ELSE IF message.tr.mac # calculate_mac(message)
    THEN [ok |-> FALSE, reason |-> "MAC mismatch"]
    ELSE [ok |-> TRUE, reason |-> "Valid"]

(***************************************************************************)
(* Message parser.                                                         *)
(***************************************************************************)
\* block 5 of parse_mt103: the content is what lies between "{5:" and the
\* final "}}", so the last sub-field of a std or swapped trailer has lost
\* its closing brace and is not found by r'\{MAC:([A-F0-9]+)\}' or
\* r'\{CHK:([A-F0-9]+)\}'.  In two messages read as one the content runs
\* from the first "{5:" to the end, and both searches find the first
\* message's values
ParsedMac(message) ==
    IF message.tr.shape \in {"std", "extra", "tng", "joined"} /\ message.tr.mac.hex
    THEN Some(message.tr.mac) ELSE None

ParsedChecksum(message) ==
    IF message.tr.shape \in {"extra", "tng", "swapped", "joined"} /\ message.tr.chk.hex
    THEN Some(message.tr.chk) ELSE None

parse_mt103(message) ==
    [raw_message |-> message,
     uetr |-> message.uetr,
     transaction_reference |-> message.f20,
     sequence_number |-> message.f34,
     mac |-> ParsedMac(message),
     checksum |-> ParsedChecksum(message)]

\* dict.get(key, default)
Get(o, default) == IF Has(o) THEN Val(o) ELSE default

(***************************************************************************)
(* Message builder.                                                        *)
(***************************************************************************)
\* a message with no header, field or trailer set
Blank ==
    [b1 |-> "", b2 |-> "", uetr |-> None, f20 |-> None, f34 |-> None,
     f77E |-> None, f108 |-> None, f451 |-> None, f79 |-> None,
     f7 |-> None, f16 |-> None, tr |-> NoTrailer]

\* checksum = calculate_swift_checksum(m); mac = calculate_mac(m);
\* m += "{5:{MAC:mac}{CHK:checksum}}"
AppendBlock5(m) ==
    [m EXCEPT !.tr = [shape |-> "std",
                      mac |-> calculate_mac(m),
                      chk |-> calculate_swift_checksum(m)]]

\* session['output_seq'] += 1
IncrementOutputSeq(session) == [session EXCEPT !.output_seq = @ + 1]

\* the builders mutate the session they are given and return the message:
\* the model returns both
generate_ack(message_data, session) ==
    LET s == IncrementOutputSeq(session) IN
    [session |-> s,
     message |-> AppendBlock5(
        [Blank EXCEPT !.b1 = "F21MOCKSVRXXXXAXXX0000000000",
                      !.b2 = "I901MOCKRCVRXXXXN",
                      !.f20 = Some(Get(message_data.transaction_reference, "UNKNOWN")),
                      !.f34 = Some(s.output_seq),
                      !.f77E = Some("ACK"),
                      !.f108 = Some(Get(message_data.uetr, [pre |-> "ACK-", id |-> "NOW"])),
                      !.f451 = Some("0")])]

generate_nack(message_data, session, error_code, reason) ==
    LET s == IncrementOutputSeq(session) IN
    [session |-> s,
     message |-> AppendBlock5(
        [Blank EXCEPT !.b1 = "F21MOCKSVRXXXXAXXX0000000000",
                      !.b2 = "I901MOCKRCVRXXXXN",
                      !.f20 = Some(Get(message_data.transaction_reference, "UNKNOWN")),
                      !.f34 = Some(s.output_seq),
                      !.f77E = Some("NACK"),
                      !.f451 = Some(error_code),
                      !.f79 = Some(reason)])]

\* a Resend Request built without counting it in output_seq
generate_resend_request_uncounted(session, from_seq, to_seq) ==
    [session |-> session,
     message |-> AppendBlock5(
        [Blank EXCEPT !.b1 = "F02MOCKSVRXXXXAXXX0000000000",
                      !.b2 = "I2MOCKRCVRXXXXN",
                      !.f34 = Some(session.output_seq),
                      !.f7 = Some(from_seq),
                      !.f16 = Some(to_seq)])]

generate_resend_request(session, from_seq, to_seq) ==
    LET s == IncrementOutputSeq(session) IN
    [session |-> s,
     message |-> AppendBlock5(
        [Blank EXCEPT !.b1 = "F02MOCKSVRXXXXAXXX0000000000",
                      !.b2 = "I2MOCKRCVRXXXXN",
                      !.f34 = Some(s.output_seq),
                      !.f7 = Some(from_seq),
                      !.f16 = Some(to_seq)])]

\* the test client's builder: all five blocks, trailer computed by the
\* client's copy of the codec
build_mt103(trn, seq_num) ==
    AppendBlock5(
        [Blank EXCEPT !.b1 = "F01TESTUS33XXXX0000000000",
                      !.b2 = "O1031234240107TESTDE33XXXX12345678",
                      !.uetr = Some([pre |-> "DEMO-UETR-", id |-> trn]),
                      !.f20 = Some(trn),
                      !.f34 = Some(seq_num)])

(***************************************************************************)
(* What a client may send: the builder's messages and damaged copies.      *)
(***************************************************************************)
\* one hex character of the MAC, or of the CHK, changed
FlipMac(m) == [m EXCEPT !.tr.mac.flip = 1 - @]
FlipChk(m) == [m EXCEPT !.tr.chk.flip = 1 - @]

\* one more "}" after the trailer
ExtraBrace(m) == [m EXCEPT !.tr.shape = "extra"]
\* a further sub-field in block 5: "{5:{MAC:m}{CHK:c}{TNG:}}"
WithTng(m) == [m EXCEPT !.tr.shape = "tng"]

\* what one recv returns when two messages arrive together: the text of
\* the first followed by the text of the second.  Every re.search finds the
\* first message's blocks and fields; the trailer of the first is followed
\* by the second message
Joined(m1, m2) ==
    [m1 EXCEPT !.tr = [shape |-> "joined", mac |-> m1.tr.mac, chk |-> m1.tr.chk,
                       next |-> m2]]

\* the first of two messages read together
FirstFrame(data) ==
    [data EXCEPT !.tr = [shape |-> "std", mac |-> data.tr.mac, chk |-> data.tr.chk]]

\* test_4_invalid_mac: no block 3, and "{5:{MAC:INVALID1234}{CHK:INVALIDCHECK}}",
\* whose values are not hexadecimal
NotHex == [fn |-> "TEXT", over |-> <<>>, flip |-> 0, hex |-> FALSE]
test_4_message(seq_num) ==
    [Blank EXCEPT !.b1 = "F01TESTUS33XXXX0000000000",
                  !.b2 = "O1031234240107TESTDE33XXXX12345678",
                  !.f20 = Some("TEST-BAD-MAC"),
                  !.f34 = Some(seq_num),
                  !.tr = [shape |-> "std", mac |-> NotHex, chk |-> NotHex]]

\* a message built like build_mt103 but without a field 34
build_without_34(trn) ==
    AppendBlock5(
        [Blank EXCEPT !.b1 = "F01TESTUS33XXXX0000000000",
                      !.b2 = "O1031234240107TESTDE33XXXX12345678",
                      !.uetr = Some([pre |-> "DEMO-UETR-", id |-> trn]),
                      !.f20 = Some(trn)])

\* a framed message with blocks 1, 2, 3 and 5 and no block 4: parse_mt103
\* reads block 4 only through its fields, so none of them is set
without_block4(trn) ==
    AppendBlock5(
        [Blank EXCEPT !.b1 = "F01TESTUS33XXXX0000000000",
                      !.b2 = "O1031234240107TESTDE33XXXX12345678",
                      !.uetr = Some([pre |-> "DEMO-UETR-", id |-> trn])])

\* no field of block 4 is found in the message
NoBlock4(m) ==
    /\ ~Has(m.f20) /\ ~Has(m.f34) /\ ~Has(m.f77E) /\ ~Has(m.f108)
    /\ ~Has(m.f451) /\ ~Has(m.f79) /\ ~Has(m.f7) /\ ~Has(m.f16)

\* what one recv returns when a message arrives in two segments: its first
\* bytes, cut inside block 2 ("{1:F01TESTUS33XXXX0000000000}{2:O1031234"),
\* so that only block 1 is found by parse_mt103
fragment == [Blank EXCEPT !.b1 = "F01TESTUS33XXXX0000000000"]

\* _is_complete_message of swift_mock_server.py: "{1:", "{2:" and "{4:" are
\* in the buffer, with "-}" or three "}".  Every text of the model holds
\* "{1:" and "{2:"; "{4:" is in it exactly when it has a block 4, which
\* then ends with "-}"
is_complete_message(buffer) == buffer.b1 # "" /\ ~NoBlock4(buffer)

Seqs == 0..MaxSeq

Variants(m) ==
    {m, FlipMac(m), FlipChk(m), StripTrailer(m),
     ExtraBrace(m), ExtraBrace(FlipChk(m)), WithTng(m)}

\* the clients of the sequence rules: the builder's message for every
\* sequence number, a message without field 34, and a copy with one more
\* closing brace (which the trailer check refuses) for sequence 2, the one
\* the control client may ask to ignore
RefusedSeqs == {2}
InboundSeq ==
    {build_mt103("TEST-001", s) : s \in Seqs}
      \cup {ExtraBrace(build_mt103("TEST-001", s)) : s \in RefusedSeqs}
      \cup {build_without_34("TEST-001")}

\* the clients of the trailer rules: every damaged copy, in order (1) and
\* ahead of the expected sequence (2)
TrailerSeqs == {1, 2}
InboundTrailer ==
    UNION {Variants(build_mt103("TEST-001", s)) \cup {test_4_message(s)} : s \in TrailerSeqs}

\* the trailer is the one the builder computes for this message
BuilderTrailer(m) == m.tr = AppendBlock5(StripTrailer(m)).tr

(***************************************************************************)
(* Server state.                                                           *)
(***************************************************************************)
VARIABLES
    sessions,           \* state.sessions: session id -> session, or NoSession
    error_mode,         \* state.error_mode
    ignored_sequences,  \* state.ignored_sequences, a list
    message_log,        \* state.message_log, the audit entries in append order
    disk,               \* the state file
    now,                \* the clock of the audit entries: the time of the log's last one
    fs,                 \* "ok", or "failing" while writes to the state file may fail
    boots,              \* restarts of the process so far
    detached,           \* per handler: its session dict once reset took it out of the map
    ctl,                \* "reset" right after the control plane's reset
    server,             \* the program that runs: "v1", "v2" or "v3"
    v1,                 \* the state of swift_mock_server when it is the one
    v3,                 \* the state of swift_mock_server_v3 when it is the one
    thr,                \* the handler threads statement by statement, and state.lock
    conn,               \* per remote endpoint: is a handler running for it
    wire,               \* per session: the :34: values of the responses sent
    last,               \* the loop iteration just completed, when the last step was one
    nmsg,               \* inbound messages processed so far
    modeMon,            \* what followed the latest injection of an error mode
    ignMon,             \* what followed the latest injection of an ignored sequence
    gapfill,            \* per session: progress through "a, a+2, a+1"
    xconn               \* progress through "a, then a+2 on a new connection"

\* the observers
monVars == <<modeMon, ignMon, gapfill, xconn>>

\* the state store and what goes with a process restart
storeVars == <<message_log, now, disk, fs, boots, detached, ctl>>

\* the v2 server
v2Vars == <<sessions, error_mode, ignored_sequences, message_log, now, disk,
            detached, conn, wire, last, monVars, thr>>

vars == <<sessions, error_mode, ignored_sequences, storeVars, server, v1, v3, thr, conn, wire,
          last, nmsg, monVars>>

NoSession == [session_id |-> "", input_seq |-> -1, output_seq |-> -1, connected |-> FALSE]

\* the session get_session creates
NewSession(session_id) ==
    [session_id |-> session_id, input_seq |-> 0, output_seq |-> 0, connected |-> TRUE]

\* MockServerState.get_session: the session of the id, created when new
get_session(map, session_id) ==
    IF map[session_id] = NoSession
    THEN [map EXCEPT ![session_id] = NewSession(session_id)]
    ELSE map

\* the sessions map with no session
NoSessions == [id \in SessionIds |-> NoSession]

\* the audit entry log_message appends.  Its timestamp is the reading of a
\* clock that ticks at every call of log_message; the preview and the
\* details are left out: nothing reads them
Entry(session_id, direction, timestamp) ==
    [timestamp |-> timestamp, session_id |-> session_id, direction |-> direction]

\* a log that is never cut
LastN_all(log, n) == log

\* a truncation that keeps the oldest n entries
LastN_oldest(log, n) ==
    IF Len(log) > n THEN SubSeq(log, 1, n) ELSE log

\* log[-n:]
LastN(log, n) ==
    IF Len(log) > n THEN SubSeq(log, Len(log) - n + 1, Len(log)) ELSE log

\* a log that records the inbound messages only
log_message_inbound_only(log, session_id, direction, timestamp) ==
    IF direction = "INBOUND"
    THEN LastN(Append(log, Entry(session_id, direction, timestamp)), LogCap)
    ELSE log

\* MockServerState.log_message, the in-memory part: append, keep the last
\* 1000 entries
log_message(log, session_id, direction, timestamp) ==
    LastN(Append(log, Entry(session_id, direction, timestamp)), LogCap)

\* the state file: absent, unreadable, or the JSON document
NoFile == [status |-> "absent", sessions |-> NoSessions, message_log |-> <<>>]

Unreadable == [status |-> "corrupt", sessions |-> NoSessions, message_log |-> <<>>]

\* what a call of save_state can meet: the file is written; open() fails and
\* the file stays as it was; the write fails after open() truncated it
SaveOutcomes == {"written", "open_fails", "write_fails"}

\* a save_state that lets the exception of a failed write out
save_state_raising(file, map, log, outcome) ==
    [disk |-> IF outcome = "written"
              THEN [status |-> "ok", sessions |-> map,
                    message_log |-> LastN(log, LogCap)]
              ELSE IF outcome = "open_fails" THEN file ELSE Unreadable,
     raised |-> outcome # "written"]

\* MockServerState.save_state: the sessions and the last 1000 entries are
\* written; an exception is printed, never raised
save_state(file, map, log, outcome) ==
    [disk |-> IF outcome = "written"
              THEN [status |-> "ok", sessions |-> map,
                    message_log |-> LastN(log, LogCap)]
              ELSE IF outcome = "open_fails" THEN file ELSE Unreadable,
     raised |-> FALSE]

\* a start that ignores the state file
load_state_fresh(file) == [sessions |-> NoSessions, message_log |-> <<>>]

\* MockServerState.load_state: the sessions and the log of a readable
\* file; nothing from a missing or unreadable one
load_state(file) ==
    IF file.status = "ok"
    THEN [sessions |-> file.sessions, message_log |-> file.message_log]
    ELSE [sessions |-> NoSessions, message_log |-> <<>>]

\* the calls of save_state of one handler step, in order: each is the
\* sessions map and the log at the call.  SaveAll runs them from the
\* i-th on and stops at the first that raises (raised_at), 0 when none does
RECURSIVE SaveAll(_, _, _, _)
SaveAll(file, calls, outcomes, i) ==
    IF i > Len(calls) THEN [disk |-> file, raised_at |-> 0]
    ELSE LET r == save_state(file, calls[i].sessions, calls[i].message_log, outcomes[i])
         IN IF r.raised THEN [disk |-> r.disk, raised_at |-> i]
            ELSE SaveAll(r.disk, calls, outcomes, i + 1)

\* the outcomes the calls can meet
OutcomesOf(calls) ==
    IF fs = "ok" THEN {[i \in 1..Len(calls) |-> "written"]}
    ELSE [1..Len(calls) -> SaveOutcomes]

NoExchange ==
    [id |-> "", msg |-> Blank, rule |-> "none", resp |-> None, closed |-> FALSE,
     pre |-> [session |-> NoSession, error_mode |-> "none", ignored_sequences |-> <<>>],
     post |-> [session |-> NoSession, error_mode |-> "none", ignored_sequences |-> <<>>]]

(***************************************************************************)
(* The connection handler: one iteration of handle_client's receive loop.  *)
(***************************************************************************)
\* a gap whose range ends at the received sequence itself
check_sequence_gap_inclusive(session, received_seq) ==
    LET expected_seq == session["input_seq"] + 1 IN
    IF received_seq > expected_seq
    THEN Some(<<expected_seq, received_seq>>)
    ELSE None

\* check_sequence_gap: the missing range (from_seq, to_seq), or None
check_sequence_gap(session, received_seq) ==
    LET expected_seq == session["input_seq"] + 1 IN
    IF received_seq > expected_seq
    THEN Some(<<expected_seq, received_seq - 1>>)
    ELSE None

\* x in list
InList(x, list) == \E i \in 1..Len(list) : list[i] = x

\* list.remove(x): the list without its first x
ListRemove(list, x) ==
    LET i == CHOOSE k \in 1..Len(list) :
                 list[k] = x /\ \A j \in 1..(k - 1) : list[j] # x
    IN SubSeq(list, 1, i - 1) \o SubSeq(list, i + 1, Len(list))

\* a drop that leaves the mode armed
DropConnection_armed(session, ignored) ==
    [rule |-> "R1", session |-> session, error_mode |-> "drop_connection",
     ignored_sequences |-> ignored, resp |-> None, closed |-> TRUE]

\* 1. error_mode == 'drop_connection': reset the mode, break, conn.close()
DropConnection(session, ignored) ==
    [rule |-> "R1", session |-> session, error_mode |-> "none",
     ignored_sequences |-> ignored, resp |-> None, closed |-> TRUE]

\* 2. the trailer does not validate: NACK with code 5, continue
TrailerNack(parsed_data, session, mode, ignored, validation_reason) ==
    LET g == generate_nack(parsed_data, session, "5", validation_reason) IN
    [rule |-> "R3", session |-> g.session, error_mode |-> mode,
     ignored_sequences |-> ignored, resp |-> Some(g.message), closed |-> FALSE]

\* a Resend Request that also accepts the message's sequence
ResendRequest_advancing(session, mode, ignored, gap) ==
    LET g == generate_resend_request(session, gap[1], gap[2]) IN
    [rule |-> "R4", session |-> [g.session EXCEPT !.input_seq = gap[2] + 1],
     error_mode |-> mode, ignored_sequences |-> ignored,
     resp |-> Some(g.message), closed |-> FALSE]

\* 3. a gap: Resend Request for the missing range, continue
ResendRequest(session, mode, ignored, gap) ==
    LET g == generate_resend_request(session, gap[1], gap[2]) IN
    [rule |-> "R4", session |-> g.session, error_mode |-> mode,
     ignored_sequences |-> ignored, resp |-> Some(g.message), closed |-> FALSE]

\* an ignored sequence that stays in the list
IgnoreSequence_kept(session, mode, ignored, received_seq) ==
    [rule |-> "R5", session |-> session, error_mode |-> mode,
     ignored_sequences |-> ignored, resp |-> None, closed |-> FALSE]

\* 4. an ignored sequence: remove it from the list, no response, continue
IgnoreSequence(session, mode, ignored, received_seq) ==
    [rule |-> "R5", session |-> session, error_mode |-> mode,
     ignored_sequences |-> ListRemove(ignored, received_seq),
     resp |-> None, closed |-> FALSE]

\* an injected NACK that leaves the mode armed
InjectedNack_armed(parsed_data, session, ignored, received_seq) ==
    LET g == generate_nack(parsed_data, session, "7", "ADVERSARIAL_TEST") IN
    [rule |-> "R6", session |-> [g.session EXCEPT !.input_seq = received_seq],
     error_mode |-> "nack_next", ignored_sequences |-> ignored,
     resp |-> Some(g.message), closed |-> FALSE]

\* an injected NACK that leaves input_seq where it was
InjectedNack_unrecorded(parsed_data, session, ignored, received_seq) ==
    LET g == generate_nack(parsed_data, session, "7", "ADVERSARIAL_TEST") IN
    [rule |-> "R6", session |-> g.session,
     error_mode |-> "none", ignored_sequences |-> ignored,
     resp |-> Some(g.message), closed |-> FALSE]

\* 5. error_mode == 'nack_next': reset the mode, NACK with code 7, and
\* "update input sequence even for NACK"
InjectedNack(parsed_data, session, ignored, received_seq) ==
    LET g == generate_nack(parsed_data, session, "7", "ADVERSARIAL_TEST") IN
    [rule |-> "R6", session |-> [g.session EXCEPT !.input_seq = received_seq],
     error_mode |-> "none", ignored_sequences |-> ignored,
     resp |-> Some(g.message), closed |-> FALSE]

\* an ACK that does not record the accepted sequence
NormalAck_unrecorded(parsed_data, session, mode, ignored, received_seq) ==
    LET g == generate_ack(parsed_data, session) IN
    [rule |-> "R7", session |-> g.session,
     error_mode |-> mode, ignored_sequences |-> ignored,
     resp |-> Some(g.message), closed |-> FALSE]

\* 6. normal flow: ACK, session['input_seq'] = received_seq
NormalAck(parsed_data, session, mode, ignored, received_seq) ==
    LET g == generate_ack(parsed_data, session) IN
    [rule |-> "R7", session |-> [g.session EXCEPT !.input_seq = received_seq],
     error_mode |-> mode, ignored_sequences |-> ignored,
     resp |-> Some(g.message), closed |-> FALSE]

\* the body of "while True" for one received message
LoopBody(session, mode, ignored, message) ==
    LET parsed_data == parse_mt103(message)
        received_seq == Get(parsed_data.sequence_number, 0)
        validation == validate_trailer(message)
        gap == check_sequence_gap(session, received_seq)
    IN
    IF mode = "drop_connection"
    THEN DropConnection(session, ignored)
    ELSE IF Has(parsed_data.mac) /\ Has(parsed_data.checksum) /\ ~validation.ok
    THEN TrailerNack(parsed_data, session, mode, ignored, validation.reason)
    ELSE IF Has(gap) /\ ~InList(received_seq, ignored)
    THEN ResendRequest(session, mode, ignored, Val(gap))
    ELSE IF InList(received_seq, ignored)
    THEN IgnoreSequence(session, mode, ignored, received_seq)
    ELSE IF mode = "nack_next"
    THEN InjectedNack(parsed_data, session, ignored, received_seq)
    ELSE NormalAck(parsed_data, session, mode, ignored, received_seq)


(***************************************************************************)
(* Observers of the exchanges.  They record what happened after an         *)
(* injection or along a scenario; they decide nothing.  An observer in     *)
(* phase -1 is switched off and stays so.                                  *)
(***************************************************************************)
\* what a response is: ACK, NACK, RESEND, or NONE when nothing was sent
Kind(resp) ==
    IF ~Has(resp) THEN "NONE"
    ELSE IF Has(Val(resp).f77E) THEN Val(Val(resp).f77E)
    ELSE IF Has(Val(resp).f7) THEN "RESEND"
    ELSE "OTHER"

\* the parts of a response the claims speak of
Summary(resp) ==
    IF ~Has(resp)
    THEN [kind |-> "NONE", code |-> None, reason |-> None, from |-> None, to |-> None]
    ELSE [kind |-> Kind(resp), code |-> Val(resp).f451, reason |-> Val(resp).f79,
          from |-> Val(resp).f7, to |-> Val(resp).f16]

NoSummary == [kind |-> "-", code |-> None, reason |-> None, from |-> None, to |-> None]

\* kind, error code and reason of a response
Verdict(resp) ==
    IF ~Has(resp)
    THEN [kind |-> "NONE", code |-> None, reason |-> None]
    ELSE [kind |-> Kind(resp), code |-> Val(resp).f451, reason |-> Val(resp).f79]

NoVerdict == [kind |-> "-", code |-> None, reason |-> None]

\* the sequence the handler reads from the message
ReceivedSeq(ex) == Get(parse_mt103(ex.msg).sequence_number, 0)

\* the message reached the NACK/ACK decision (step 5 of the loop body)
Eligible(ex) == ex.rule \in {"R6", "R7"}

\* no fault was armed when the message was handled
NoFaultArmed(ex) ==
    ex.pre.error_mode = "none" /\ ex.pre.ignored_sequences = <<>>

\* modeMon: phase 0 nothing injected, 1 a mode injected, 2 the first
\* message concerned was handled (first), 3 the next one too (second).
\* nack_next concerns the messages that reach the NACK/ACK decision,
\* drop_connection every message.
ModeIdle ==
    [mode |-> "none", phase |-> 0,
     first |-> [v |-> NoVerdict, closed |-> FALSE, mode_after |-> "-", seqs_kept |-> FALSE],
     second |-> [kind |-> "-", rule |-> "-"]]

ModeOff == [ModeIdle EXCEPT !.phase = -1]

ModeInjected(m, error_type) ==
    IF m.phase = -1 THEN m ELSE [ModeIdle EXCEPT !.mode = error_type, !.phase = 1]

ModeObserve(m, ex) ==
    IF m.phase \in {1, 2} /\ (m.mode = "drop_connection" \/ Eligible(ex))
    THEN IF m.phase = 1
         THEN [m EXCEPT !.phase = 2,
                        !.first = [v |-> Verdict(ex.resp), closed |-> ex.closed,
                                   mode_after |-> ex.post.error_mode,
                                   seqs_kept |-> ex.post.session = ex.pre.session]]
         ELSE [m EXCEPT !.phase = 3,
                        !.second = [kind |-> Kind(ex.resp), rule |-> ex.rule]]
    ELSE m

\* ignMon: after the injection of [k] (k not yet in the list), arrivals
\* counts the messages that declare sequence k (0, 1, 2 for two or more)
\* and arrival is what happened to the first of them; phase is 1 after the
\* injection, 2 after the first message with sequence k that is neither
\* dropped nor refused by the trailer check (first), 3 after the second.
IgnIdle ==
    [k |-> -1, phase |-> 0, arrivals |-> 0,
     arrival |-> [rule |-> "-", kind |-> "-", removed |-> FALSE, input_seq_kept |-> FALSE],
     arrival2 |-> [rule |-> "-"],
     first |-> [rule |-> "-", kind |-> "-", removed |-> FALSE, input_seq_kept |-> FALSE],
     second |-> [rule |-> "-"]]

IgnOff == [IgnIdle EXCEPT !.phase = -1]

IgnInjected(m, sequences, ignored) ==
    IF m.phase = -1 THEN m
    ELSE IF Len(sequences) = 1 /\ ~InList(sequences[1], ignored)
    THEN [IgnIdle EXCEPT !.k = sequences[1], !.phase = 1]
    ELSE IgnIdle

IgnFate(m, ex) ==
    [rule |-> ex.rule, kind |-> Kind(ex.resp),
     removed |-> ~InList(m.k, ex.post.ignored_sequences),
     input_seq_kept |-> ex.post.session.input_seq = ex.pre.session.input_seq]

IgnArrival(m, ex) ==
    IF m.phase >= 1 /\ ReceivedSeq(ex) = m.k
    THEN IF m.arrivals = 0 THEN [m EXCEPT !.arrivals = 1, !.arrival = IgnFate(m, ex)]
         ELSE IF m.arrivals = 1
         THEN [m EXCEPT !.arrivals = 2, !.arrival2 = [rule |-> ex.rule]]
         ELSE m
    ELSE m

IgnObserve(m0, ex) ==
    LET m == IgnArrival(m0, ex) IN
    IF m.phase \in {1, 2} /\ ReceivedSeq(ex) = m.k /\ ex.rule \notin {"R1", "R3"}
    THEN IF m.phase = 1
         THEN [m EXCEPT !.phase = 2, !.first = IgnFate(m, ex)]
         ELSE [m EXCEPT !.phase = 3, !.second = [rule |-> ex.rule]]
    ELSE m

\* gapfill[id]: phase 1 after a message a with input_seq < a, 2 after a+2
\* followed it, 3 after a+1 followed that; every message with the
\* builder's trailer and no fault armed
GapIdle ==
    [phase |-> 0, a |-> -1, r1 |-> NoSummary, r2 |-> NoSummary, r3 |-> NoSummary,
     input_seq_after |-> -1]

GapOff == [GapIdle EXCEPT !.phase = -1]

Scenario(ex) == NoFaultArmed(ex) /\ BuilderTrailer(ex.msg) /\ Has(ex.msg.f34)

GapStart(ex) ==
    IF Scenario(ex) /\ ex.pre.session.input_seq < Val(ex.msg.f34)
    THEN [GapIdle EXCEPT !.phase = 1, !.a = Val(ex.msg.f34), !.r1 = Summary(ex.resp)]
    ELSE GapIdle

GapObserve(g, ex) ==
    IF g.phase = -1 THEN g
    ELSE IF g.phase = 1 /\ Scenario(ex) /\ Val(ex.msg.f34) = g.a + 2
    THEN [g EXCEPT !.phase = 2, !.r2 = Summary(ex.resp)]
    ELSE IF g.phase = 2 /\ Scenario(ex) /\ Val(ex.msg.f34) = g.a + 1
    THEN [g EXCEPT !.phase = 3, !.r3 = Summary(ex.resp),
                   !.input_seq_after = ex.post.session.input_seq]
    ELSE GapStart(ex)

\* xconn: phase 1 after a message with sequence a, 2 once a connection
\* was accepted after it (on), 3 after a+2 arrived on that connection as
\* the next message (r is the response to it)
XIdle == [phase |-> 0, a |-> -1, on |-> "", r |-> NoSummary]

XOff == [XIdle EXCEPT !.phase = -1]

XStart(ex) ==
    IF Scenario(ex)
    THEN [XIdle EXCEPT !.phase = 1, !.a = Val(ex.msg.f34)]
    ELSE XIdle

XAccepted(x, id) ==
    IF x.phase \in {1, 2} THEN [x EXCEPT !.phase = 2, !.on = id] ELSE x

XObserve(x, ex) ==
    IF x.phase = -1 THEN x
    ELSE IF x.phase = 2 /\ ex.id = x.on /\ Scenario(ex) /\ Val(ex.msg.f34) = x.a + 2
    THEN [x EXCEPT !.phase = 3, !.r = Summary(ex.resp)]
    ELSE XStart(ex)

(***************************************************************************)
(* swift_mock_server_v3: its state is the record v3.                       *)
(*   mock_state       the global dict: sessions (the ids present; a value  *)
(*                    is the dict object ACTIVE_SESSIONS holds), messages, *)
(*                    simulation_mode, latency_ms, message_count           *)
(*   ACTIVE_SESSIONS  id -> session                                        *)
(*   loaded           the values of the sessions json.load put in the map  *)
(*   file             the state file                                       *)
(*   conn             per remote endpoint: is a handler running for it     *)
(*   last             the loop iteration just completed                    *)
(***************************************************************************)
V3NoSession == [incoming_sequence |-> -1, outgoing_sequence |-> -1, authenticated |-> FALSE]

\* the session handle_client creates
V3NewSession == [incoming_sequence |-> 0, outgoing_sequence |-> 0, authenticated |-> FALSE]

\* the message ids: tag 20, or f"MSG-{int(time.time())}" without one
V3Ids == {"TEST-001", "MSG-TIME"}

V3NoMessage == [sequenceNumber |-> -1, responseType |-> "-"]

\* mock_state as the module and reset_state define it
V3Empty ==
    [sessions |-> {}, messages |-> [m \in V3Ids |-> V3NoMessage],
     simulation_mode |-> "none", latency_ms |-> 0, message_count |-> 0]

V3NoFile == [status |-> "absent", mock_state |-> V3Empty,
             sessions |-> [id \in SessionIds |-> V3NoSession]]

V3Unreadable == [V3NoFile EXCEPT !.status = "corrupt"]

\* v3 save_state: mock_state with the sessions' values; an exception is
\* printed, never raised
v3_save_state(file, mock_state, active, outcome) ==
    IF outcome = "written"
    THEN [status |-> "ok", mock_state |-> mock_state,
          sessions |-> [id \in SessionIds |->
                          IF id \in mock_state.sessions THEN active[id] ELSE V3NoSession]]
    ELSE IF outcome = "open_fails" THEN file ELSE V3Unreadable

\* v3 load_state: mock_state = json.load(f); a missing or unreadable file
\* leaves the module's mock_state
v3_load_state(file) == IF file.status = "ok" THEN file.mock_state ELSE V3Empty

V3NoResponse == [kind |-> "NONE", f20 |-> None, f34 |-> None, begin |-> None,
                 end |-> None, code |-> None]

V3NoExchange == [id |-> "", data |-> [login |-> FALSE, f20 |-> None, f34 |-> None],
                 resp |-> V3NoResponse, delayed |-> FALSE,
                 pre |-> V3NoSession, post |-> V3NoSession]

V3Fresh ==
    [mock_state |-> V3Empty,
     ACTIVE_SESSIONS |-> [id \in SessionIds |-> V3NoSession],
     loaded |-> [id \in SessionIds |-> V3NoSession],
     file |-> V3NoFile,
     conn |-> [id \in SessionIds |-> "closed"],
     last |-> V3NoExchange]

\* extract_sequence_number: field 34, 1 without it
extract_sequence_number(data) == Get(data.f34, 1)

\* extract_message_id: tag 20, a time-based id without it
extract_message_id(data) == Get(data.f20, "MSG-TIME")

v3_generate_ack(message_id, seq_num) ==
    [V3NoResponse EXCEPT !.kind = "ACK", !.f20 = Some(message_id), !.f34 = Some(seq_num),
                         !.code = Some("0")]

v3_generate_nack(message_id, seq_num, error_code) ==
    [V3NoResponse EXCEPT !.kind = "NACK", !.f20 = Some(message_id), !.f34 = Some(seq_num),
                         !.code = Some(error_code)]

\* v3 generate_resend_request: :16: begin_seq, :17: end_seq
v3_generate_resend_request(begin_seq, end_seq) ==
    [V3NoResponse EXCEPT !.kind = "RESEND", !.begin = Some(begin_seq), !.end = Some(end_seq)]

v3_generate_error(error_code) ==
    [V3NoResponse EXCEPT !.kind = "ERROR", !.f20 = Some("ERROR"), !.code = Some(error_code)]

\* the messages a v3 client sends: a LOGIN, and MT103s with and without
\* field 34 and tag 20
V3Inbound ==
    {[login |-> TRUE, f20 |-> None, f34 |-> None]}
      \cup {[login |-> FALSE, f20 |-> Some("TEST-001"), f34 |-> Some(seq)] : seq \in Seqs}
      \cup {[login |-> FALSE, f20 |-> None, f34 |-> None]}

\* a timeout test that never succeeds
TimeoutMode_never(mock_state) == FALSE

\* if mock_state['simulation_mode'] == 'timeout'
TimeoutMode(mock_state) == mock_state.simulation_mode = "timeout"

\* a session check that lets every message through
NotAuthenticated_never(session) == FALSE

\* if not ACTIVE_SESSIONS[session_id]['authenticated']
NotAuthenticated(session) == ~session.authenticated

\* the body of v3 handle_client's "while True" for one received message:
\* the new mock_state, the session, the response, whether the state is saved
V3LoopBody(mock_state, session, data) ==
    LET seq_num == extract_sequence_number(data)
        expected_seq == session.incoming_sequence + 1
        message_id == extract_message_id(data)
        quiet == [mock_state |-> mock_state, session |-> session, resp |-> V3NoResponse,
                  save |-> FALSE]
    IN
    IF TimeoutMode(mock_state) THEN quiet
    ELSE IF data.login
    THEN [quiet EXCEPT !.session.authenticated = TRUE,
                       !.resp = [V3NoResponse EXCEPT !.kind = "LOGIN_ACK",
                                                     !.f20 = Some("LOGIN-ACK")]]
    ELSE IF NotAuthenticated(session)
    THEN [quiet EXCEPT !.resp = v3_generate_error("SESSION_NOT_ACTIVE")]
    ELSE IF seq_num # expected_seq
    THEN [quiet EXCEPT !.resp = v3_generate_resend_request(expected_seq, seq_num - 1)]
    ELSE LET nack == mock_state.simulation_mode = "nack"
             stored == [sequenceNumber |-> seq_num,
                        responseType |-> IF nack THEN "NACK" ELSE "ACK"]
             count == mock_state.message_count + 1
         IN [mock_state |-> [mock_state EXCEPT !.messages[message_id] = stored,
                                               !.message_count = count],
             session |-> [session EXCEPT !.incoming_sequence = seq_num,
                                         !.outgoing_sequence = @ + 1],
             resp |-> IF nack THEN v3_generate_nack(message_id, seq_num, "T27")
                      ELSE v3_generate_ack(message_id, seq_num),
             save |-> count % SaveEvery = 0]

(***************************************************************************)
(* The threads of v2, one statement at a time.  thr holds                  *)
(*   lock      the holder of state.lock: "free" or a session id            *)
(*   pc        per handler thread: the statement of handle_client it is at *)
(*   seq       per handler thread: received_seq of the message in hand     *)
(*   access    the latest access to error_mode or ignored_sequences: who,  *)
(*             which, read or write, and whether who held state.lock       *)
(*   write     the latest call of save_state: who, and whether who held    *)
(*             state.lock                                                  *)
(*   injected  per error type: injections so far                           *)
(*   fired     per error mode: messages it was applied to so far           *)
(***************************************************************************)
NoAccess == [who |-> "none", table |-> "-", kind |-> "-", locked |-> FALSE]

NoWrite == [who |-> "none", locked |-> FALSE]

ThrIdle ==
    [lock |-> "free",
     pc |-> [id \in SessionIds |-> "closed"],
     seq |-> [id \in SessionIds |-> 0],
     access |-> NoAccess,
     write |-> NoWrite,
     injected |-> [mode \in {"nack_next", "drop_connection", "ignore_sequence"} |-> 0],
     fired |-> [mode \in {"nack_next", "drop_connection"} |-> 0]]

\* who calls save_state now, and whether it holds the lock
Write(who, holder) == [who |-> who, locked |-> holder = who]

\* who reads or writes a fault table now, and whether it holds the lock
Access(who, table, kind) ==
    [who |-> who, table |-> table, kind |-> kind, locked |-> thr.lock = who]

(***************************************************************************)
(* swift_mock_server (v1): its state is the record v1, its handler threads *)
(* are modelled one statement at a time.                                   *)
(*   sessions       self.sessions: number n of "SESSION-n" -> session      *)
(*   message_count  self.message_count                                     *)
(*   pc             per client: the statement its handler thread is at     *)
(*   session_id     per handler: its local session_id (the number)         *)
(*   loaded         per handler: self.message_count as "+=" has read it    *)
(*   msg_id         per handler: its local msg_id (the number)             *)
(*   frame          per handler: the frame in hand                         *)
(*   sent           per handler: the responses sent for the frame in hand  *)
(*   acks           per handler: the ACKs sent on its connection           *)
(*   session_ids    the session ids handlers were given, in order          *)
(*   msg_ids        the message ids frames were given, in order            *)
(*   done           the frame whose processing ended last                  *)
(***************************************************************************)
V1Clients == {"c1", "c2"}

\* the connections accepted in one run
MaxAccepts == 3

V1SessionNums == 1..MaxAccepts

V1NoSession == [owner |-> "", messages_received |-> -1]

V1NotDone == [client |-> "", frame |-> "none", sent |-> <<>>]

\* SwiftMockServer.__init__
V1Fresh ==
    [sessions |-> [n \in V1SessionNums |-> V1NoSession],
     message_count |-> 0,
     pc |-> [c \in V1Clients |-> "closed"],
     session_id |-> [c \in V1Clients |-> 0],
     loaded |-> [c \in V1Clients |-> 0],
     msg_id |-> [c \in V1Clients |-> 0],
     frame |-> [c \in V1Clients |-> "none"],
     sent |-> [c \in V1Clients |-> <<>>],
     acks |-> [c \in V1Clients |-> 0],
     session_ids |-> <<>>,
     msg_ids |-> <<>>,
     done |-> V1NotDone]

\* len(self.sessions)
V1Len(map) == Cardinality({n \in DOMAIN map : map[n] # V1NoSession})

\* SwiftMessage._validate: the frames are an MT103 with fields 20, 32A, 50K
\* and 59 ("valid") and one without field 59 ("invalid")
V1Frames == {"valid", "invalid"}

\* _log_transaction: open('swift_transactions.log', 'a') and write succeed
\* or raise
V1LogOutcomes == {"written", "raises"}

(***************************************************************************)
(* Actions.                                                                *)
(***************************************************************************)
\* the server after construction, no state file present
Started ==
    /\ sessions = NoSessions
    /\ error_mode = "none"
    /\ ignored_sequences = <<>>
    /\ message_log = <<>>
    /\ now = 0
    /\ disk = NoFile
    /\ fs = "ok"
    /\ boots = 0
    /\ detached = NoSessions
    /\ ctl = "none"
    /\ v1 = V1Fresh
    /\ v3 = V3Fresh
    /\ thr = ThrIdle
    /\ conn = [id \in SessionIds |-> "closed"]
    /\ wire = [id \in SessionIds |-> <<>>]
    /\ last = NoExchange
    /\ nmsg = 0

\* swift_mock_server_v2 is the program that runs
ServerInit == Started /\ server = "v2"

MonitorsOff ==
    /\ modeMon = ModeOff
    /\ ignMon = IgnOff
    /\ gapfill = [id \in SessionIds |-> GapOff]
    /\ xconn = XOff

Init == ServerInit /\ MonitorsOff

\* the fault table and the session as one value
Snapshot(session, mode, ignored) ==
    [session |-> session, error_mode |-> mode, ignored_sequences |-> ignored]

\* one call of save_state by a handler: the sessions map, the log and the
\* handler's own session at the call
SaveCall(map, log, session) ==
    [sessions |-> map, message_log |-> log, session |-> session]

\* the calls of save_state while one message is handled: in log_message
\* for the inbound message; then in log_message for a NACK or a Resend
\* Request; for the injected NACK in log_message and again after input_seq
\* is set; for the ACK after input_seq is set and again in log_message
SaveCalls(id, attached, session, o) ==
    LET In(sess) == IF attached THEN [sessions EXCEPT ![id] = sess] ELSE sessions
        log1 == log_message(message_log, id, "INBOUND", now + 1)
        log2 == log_message(log1, id, "OUTBOUND", now + 2)
        first == SaveCall(sessions, log1, session)
    IN
    IF o.rule \in {"R1", "R5"} THEN <<first>>
    ELSE IF o.rule \in {"R3", "R4"}
    THEN <<first, SaveCall(In(o.session), log2, o.session)>>
    ELSE IF o.rule = "R6"
    THEN LET sent == [o.session EXCEPT !.input_seq = session.input_seq] IN
         <<first, SaveCall(In(sent), log2, sent), SaveCall(In(o.session), log2, o.session)>>
    ELSE <<first, SaveCall(In(o.session), log1, o.session),
           SaveCall(In(o.session), log2, o.session)>>

\* "except Exception" of handle_client: an exception raised in the k-th
\* call of save_state ends the handler where it stands, conn.close()
Interrupted(session, mode, ignored, o, calls, k) ==
    IF k = 1
    THEN [rule |-> o.rule, session |-> session, error_mode |-> mode,
          ignored_sequences |-> ignored, resp |-> None, closed |-> TRUE]
    ELSE [o EXCEPT !.session = calls[k].session, !.closed = TRUE]

\* start_swift_server accepts, handle_client calls state.get_session,
\* which saves the state when it creates the session
Connect(id) ==
    /\ conn[id] = "closed"
    /\ sessions' = get_session(sessions, id)
    /\ IF sessions[id] = NoSession
       THEN \E outcomes \in OutcomesOf(<<1>>) :
               disk' = SaveAll(disk, <<SaveCall(sessions', message_log, sessions'[id])>>,
                               outcomes, 1).disk
       ELSE disk' = disk
    /\ conn' = [conn EXCEPT ![id] = "open"]
    /\ last' = NoExchange
    /\ ctl' = "none"
    /\ xconn' = XAccepted(xconn, id)
    /\ UNCHANGED <<error_mode, ignored_sequences, message_log, now, fs, boots, detached,
                   server, v1, v3, thr, wire, nmsg, modeMon, ignMon, gapfill>>

\* conn.recv returns no data: break, conn.close()
Disconnect(id) ==
    /\ conn[id] = "open"
    /\ conn' = [conn EXCEPT ![id] = "closed"]
    /\ detached' = [detached EXCEPT ![id] = NoSession]
    /\ last' = NoExchange
    /\ ctl' = "none"
    /\ UNCHANGED <<sessions, error_mode, ignored_sequences, message_log, now, disk, fs, boots,
                   server, v1, v3, thr, wire, nmsg, monVars>>

\* the session dict the handler of the connection works on
SessionOf(id) == IF detached[id] = NoSession THEN sessions[id] ELSE detached[id]

\* the loop body on one message, with what its calls of save_state can
\* leave behind
WaysToHandle(id, message) ==
    LET body == LoopBody(SessionOf(id), error_mode, ignored_sequences, message)
        calls == SaveCalls(id, detached[id] = NoSession, SessionOf(id), body)
    IN {[body |-> body, calls |-> calls, saved |-> SaveAll(disk, calls, outcomes, 1)] :
           outcomes \in OutcomesOf(calls)}

\* handle_client receives one message and runs the loop body on it;
\* h is one way it can go
HandleAs(id, message, h) ==
    LET attached == detached[id] = NoSession
        session == SessionOf(id)
        body == h.body
        calls == h.calls
        k == h.saved.raised_at
        o == IF k = 0 THEN body
             ELSE Interrupted(session, error_mode, ignored_sequences, body, calls, k)
        ex == [id |-> id, msg |-> message, rule |-> o.rule, resp |-> o.resp,
               closed |-> o.closed,
               pre |-> Snapshot(session, error_mode, ignored_sequences),
               post |-> Snapshot(o.session, o.error_mode, o.ignored_sequences)]
    IN
    /\ sessions' = IF attached THEN [sessions EXCEPT ![id] = o.session] ELSE sessions
    /\ detached' = IF attached \/ o.closed THEN [detached EXCEPT ![id] = NoSession]
                   ELSE [detached EXCEPT ![id] = o.session]
    /\ error_mode' = o.error_mode
    /\ ignored_sequences' = o.ignored_sequences
    /\ message_log' = calls[IF k = 0 THEN Len(calls) ELSE k].message_log
    /\ now' = message_log'[Len(message_log')].timestamp
    /\ disk' = h.saved.disk
    /\ conn' = [conn EXCEPT ![id] = IF o.closed THEN "closed" ELSE "open"]
    /\ wire' = IF Has(o.resp)
               THEN [wire EXCEPT ![id] = Append(@, Val(Val(o.resp).f34))]
               ELSE wire
    /\ last' = ex
    /\ modeMon' = ModeObserve(modeMon, ex)
    /\ ignMon' = IgnObserve(ignMon, ex)
    /\ gapfill' = [gapfill EXCEPT ![id] = GapObserve(@, ex)]
    /\ xconn' = XObserve(xconn, ex)

Handle(id, message) ==
    /\ conn[id] = "open"
    /\ \E h \in WaysToHandle(id, message) : HandleAs(id, message, h)
    /\ nmsg' = nmsg + 1
    /\ ctl' = "none"
    /\ UNCHANGED <<fs, boots, server, v1, v3, thr>>

Receive(id, message) == nmsg < MaxMsgs /\ Handle(id, message)

\* ControlAPIHandler.do_POST /inject-error with nack_next or drop_connection
InjectErrorMode(error_type) ==
    /\ error_type \in {"nack_next", "drop_connection"}
    /\ error_mode' = error_type
    /\ last' = NoExchange
    /\ ctl' = "none"
    /\ modeMon' = ModeInjected(modeMon, error_type)
    /\ UNCHANGED <<sessions, ignored_sequences, message_log, now, disk, fs, boots, detached,
                   server, v1, v3, thr, conn, wire, nmsg, ignMon, gapfill, xconn>>

\* ControlAPIHandler.do_POST /inject-error with ignore_sequence
InjectIgnore(sequences) ==
    /\ Len(ignored_sequences) + Len(sequences) <= MaxIgnored
    /\ ignored_sequences' = ignored_sequences \o sequences
    /\ last' = NoExchange
    /\ ctl' = "none"
    /\ ignMon' = IgnInjected(ignMon, sequences, ignored_sequences)
    /\ UNCHANGED <<sessions, error_mode, message_log, now, disk, fs, boots, detached,
                   server, v1, v3, thr, conn, wire, nmsg, modeMon, gapfill, xconn>>

\* an observer that is switched on goes back to idle
Restarted(m, idle) == IF m.phase = -1 THEN m ELSE idle

\* a reset that leaves the fault state as it is
Reset_keeping_faults ==
    /\ sessions' = NoSessions
    /\ detached' = [id \in SessionIds |->
                      IF conn[id] = "open" /\ detached[id] = NoSession
                      THEN sessions[id] ELSE detached[id]]
    /\ message_log' = <<>>
    /\ disk' = save_state(disk, NoSessions, <<>>, "written").disk
    /\ last' = NoExchange
    /\ ctl' = "reset"
    /\ now' = 0
    /\ UNCHANGED <<error_mode, ignored_sequences, fs, boots, server, v1, v3, thr, conn, wire,
                   nmsg, monVars>>

\* ControlAPIHandler.do_POST /reset: the map, the log and the fault state
\* are cleared and saved; a running handler keeps the session dict it holds
Reset ==
    /\ sessions' = NoSessions
    /\ detached' = [id \in SessionIds |->
                      IF conn[id] = "open" /\ detached[id] = NoSession
                      THEN sessions[id] ELSE detached[id]]
    /\ message_log' = <<>>
    /\ error_mode' = "none"
    /\ ignored_sequences' = <<>>
    /\ \E outcomes \in OutcomesOf(<<1>>) :
          disk' = SaveAll(disk, <<SaveCall(NoSessions, <<>>, NoSession)>>, outcomes, 1).disk
    /\ last' = NoExchange
    /\ ctl' = "reset"
    /\ modeMon' = Restarted(modeMon, ModeIdle)
    /\ ignMon' = Restarted(ignMon, IgnIdle)
    /\ gapfill' = [id \in SessionIds |-> Restarted(gapfill[id], GapIdle)]
    /\ xconn' = Restarted(xconn, XIdle)
    /\ now' = 0
    /\ UNCHANGED <<fs, boots, server, v1, v3, thr, conn, wire, nmsg>>

\* the process stops between two messages and is started again:
\* MockServerState.__init__ with load_state, every connection is gone
Restart ==
    /\ boots < MaxRestarts
    /\ boots' = boots + 1
    /\ sessions' = load_state(disk).sessions
    /\ message_log' = load_state(disk).message_log
    /\ error_mode' = "none"
    /\ ignored_sequences' = <<>>
    /\ detached' = NoSessions
    /\ conn' = [id \in SessionIds |-> "closed"]
    /\ last' = NoExchange
    /\ ctl' = "none"
    /\ modeMon' = Restarted(modeMon, ModeIdle)
    /\ ignMon' = Restarted(ignMon, IgnIdle)
    /\ gapfill' = [id \in SessionIds |-> Restarted(gapfill[id], GapIdle)]
    /\ xconn' = Restarted(xconn, XIdle)
    /\ now' = IF message_log' = <<>> THEN 0
              ELSE message_log'[Len(message_log')].timestamp
    /\ UNCHANGED <<disk, fs, server, v1, v3, thr, wire, nmsg>>

\* writes to the state file start to fail (disk full, no permission)
DiskFails ==
    /\ fs = "ok"
    /\ fs' = "failing"
    /\ last' = NoExchange
    /\ ctl' = "none"
    /\ UNCHANGED <<sessions, error_mode, ignored_sequences, message_log, now, disk, boots,
                   detached, server, v1, v3, thr, conn, wire, nmsg, monVars>>

\* writes to the state file work again
DiskRepaired ==
    /\ fs = "failing"
    /\ fs' = "ok"
    /\ last' = NoExchange
    /\ ctl' = "none"
    /\ UNCHANGED <<sessions, error_mode, ignored_sequences, message_log, now, disk, boots,
                   detached, server, v1, v3, thr, conn, wire, nmsg, monVars>>

(***************************************************************************)
(* The actions of swift_mock_server_v3.                                    *)
(***************************************************************************)
\* the value mock_state['sessions'][id] has
V3SessionValue(id) ==
    IF v3.conn[id] = "open" THEN v3.ACTIVE_SESSIONS[id] ELSE v3.loaded[id]

V3SessionValues == [id \in SessionIds |-> V3SessionValue(id)]

\* the outcomes a save_state call can have
V3Outcomes == IF fs = "ok" THEN {"written"} ELSE SaveOutcomes

\* the login response handle_client sends on accept
V3LoginResponse == [V3NoResponse EXCEPT !.kind = "LOGIN_OK", !.f20 = Some("LOGIN_OK")]

\* v3 handle_client up to its loop: the login response, a new session in
\* ACTIVE_SESSIONS and, the same object, in mock_state['sessions']
V3Connect(id) ==
    /\ v3.conn[id] = "closed"
    /\ v3' = [v3 EXCEPT !.conn[id] = "open",
                        !.ACTIVE_SESSIONS[id] = V3NewSession,
                        !.mock_state.sessions = @ \cup {id},
                        !.last = [V3NoExchange EXCEPT !.id = id, !.resp = V3LoginResponse,
                                                      !.post = V3NewSession]]
    /\ ctl' = "none"
    /\ UNCHANGED <<v2Vars, fs, boots, server, v1, nmsg>>

\* the client closes: the finally clause removes the session from both maps
V3Disconnect(id) ==
    /\ v3.conn[id] = "open"
    /\ v3' = [v3 EXCEPT !.conn[id] = "closed",
                        !.ACTIVE_SESSIONS[id] = V3NoSession,
                        !.loaded[id] = V3NoSession,
                        !.mock_state.sessions = @ \ {id},
                        !.last = V3NoExchange]
    /\ ctl' = "none"
    /\ UNCHANGED <<v2Vars, fs, boots, server, v1, nmsg>>

\* one iteration of v3 handle_client's loop
V3Receive(id, data) ==
    /\ v3.conn[id] = "open"
    /\ nmsg < MaxMsgs
    /\ LET session == v3.ACTIVE_SESSIONS[id]
           r == V3LoopBody(v3.mock_state, session, data)
           values == [V3SessionValues EXCEPT ![id] = r.session]
       IN \E outcome \in V3Outcomes :
             v3' = [v3 EXCEPT
                      !.mock_state = r.mock_state,
                      !.ACTIVE_SESSIONS[id] = r.session,
                      !.file = IF r.save
                               THEN v3_save_state(@, r.mock_state, values, outcome)
                               ELSE @,
                      !.last = [id |-> id, data |-> data, resp |-> r.resp,
                                delayed |-> v3.mock_state.simulation_mode # "timeout"
                                              /\ v3.mock_state.latency_ms > 0,
                                pre |-> session, post |-> r.session]]
    /\ nmsg' = nmsg + 1
    /\ ctl' = "none"
    /\ UNCHANGED <<v2Vars, fs, boots, server, v1>>

\* the error types and latencies the control client posts
V3Modes == {"nack", "timeout", "latency", "none"}

V3Latencies == {5000}

\* POST /simulate-error: the mode is set, the latency with mode "latency",
\* the state is saved
V3SimulateError(error_type, latency_ms) ==
    /\ LET mock_state == [v3.mock_state EXCEPT
                            !.simulation_mode = error_type,
                            !.latency_ms = IF error_type = "latency" THEN latency_ms ELSE @]
       IN \E outcome \in V3Outcomes :
             v3' = [v3 EXCEPT
                      !.mock_state = mock_state,
                      !.file = v3_save_state(@, mock_state, V3SessionValues, outcome),
                      !.last = V3NoExchange]
    /\ ctl' = "none"
    /\ UNCHANGED <<v2Vars, fs, boots, server, v1, nmsg>>

\* POST /reset: mock_state is a new dict, saved; ACTIVE_SESSIONS is kept
V3Reset ==
    /\ \E outcome \in V3Outcomes :
          v3' = [v3 EXCEPT
                   !.mock_state = V3Empty,
                   !.file = v3_save_state(@, V3Empty, V3SessionValues, outcome),
                   !.last = V3NoExchange]
    /\ ctl' = "reset"
    /\ UNCHANGED <<v2Vars, fs, boots, server, v1, nmsg>>

\* the v3 process stops and is started again: load_state, no connection
V3Restart ==
    /\ boots < MaxRestarts
    /\ boots' = boots + 1
    /\ v3' = [v3 EXCEPT
                !.mock_state = v3_load_state(v3.file),
                !.ACTIVE_SESSIONS = [id \in SessionIds |-> V3NoSession],
                !.loaded = IF v3.file.status = "ok" THEN v3.file.sessions
                           ELSE [id \in SessionIds |-> V3NoSession],
                !.conn = [id \in SessionIds |-> "closed"],
                !.last = V3NoExchange]
    /\ ctl' = "none"
    /\ UNCHANGED <<v2Vars, fs, server, v1, nmsg>>

V3Step(messages, modes) ==
    \/ \E id \in SessionIds : V3Connect(id)
    \/ \E id \in SessionIds : V3Disconnect(id)
    \/ \E id \in SessionIds : \E data \in messages : V3Receive(id, data)
    \/ \E error_type \in modes : \E latency_ms \in V3Latencies :
          V3SimulateError(error_type, latency_ms)

(***************************************************************************)
(* The statements of v1's handler threads.                                 *)
(***************************************************************************)
\* what no statement of v1 changes
v1Frame == <<sessions, error_mode, ignored_sequences, storeVars, server, v3, thr, conn,
             wire, last, nmsg, monVars>>

\* _handle_client, line 164: session_id = f"SESSION-{len(self.sessions) + 1}"
V1Accept(c) ==
    /\ v1.pc[c] = "closed"
    /\ Len(v1.session_ids) < MaxAccepts
    /\ LET n == V1Len(v1.sessions) + 1 IN
       v1' = [v1 EXCEPT !.pc[c] = "store_session",
                        !.session_id[c] = n,
                        !.session_ids = Append(@, n),
                        !.done = V1NotDone]
    /\ UNCHANGED v1Frame

\* _handle_client, lines 165-169: self.sessions[session_id] = {...}
V1StoreSession(c) ==
    /\ v1.pc[c] = "store_session"
    /\ v1' = [v1 EXCEPT !.sessions[v1.session_id[c]] =
                            [owner |-> c, messages_received |-> 0],
                        !.acks[c] = 0,
                        !.pc[c] = "recv",
                        !.done = V1NotDone]
    /\ UNCHANGED v1Frame

\* recv returns no data: break, client_socket.close(); the session stays
\* in self.sessions
V1PeerCloses(c) ==
    /\ v1.pc[c] = "recv"
    /\ v1' = [v1 EXCEPT !.pc[c] = "closed", !.done = V1NotDone]
    /\ UNCHANGED v1Frame

\* lines 176-184: the buffer holds a complete message, _process_message is
\* called; line 213, "self.message_count += 1", reads the counter
V1Recv(c, frame) ==
    /\ v1.pc[c] = "recv"
    /\ Len(v1.msg_ids) + Cardinality({d \in V1Clients : v1.frame[d] # "none"}) < MaxMsgs
    /\ v1' = [v1 EXCEPT !.frame[c] = frame,
                        !.sent[c] = <<>>,
                        !.loaded[c] = v1.message_count,
                        !.pc[c] = "count_store",
                        !.done = V1NotDone]
    /\ UNCHANGED v1Frame

\* line 213, "self.message_count += 1", stores the sum
V1CountStore(c) ==
    /\ v1.pc[c] = "count_store"
    /\ v1' = [v1 EXCEPT !.message_count = v1.loaded[c] + 1,
                        !.pc[c] = "msg_id",
                        !.done = V1NotDone]
    /\ UNCHANGED v1Frame

\* line 214: msg_id = f"MSG-{self.message_count:06d}"
V1MsgId(c) ==
    /\ v1.pc[c] = "msg_id"
    /\ v1' = [v1 EXCEPT !.msg_id[c] = v1.message_count,
                        !.msg_ids = Append(@, v1.message_count),
                        !.pc[c] = "verdict",
                        !.done = V1NotDone]
    /\ UNCHANGED v1Frame

\* lines 230-234: _send_ack and messages_received += 1 for a valid
\* message, _send_nack for any other
V1Verdict(c) ==
    /\ v1.pc[c] = "verdict"
    /\ v1' = IF v1.frame[c] = "valid"
             THEN [v1 EXCEPT !.sent[c] = Append(@, "ACK"),
                             !.acks[c] = @ + 1,
                             !.sessions[v1.session_id[c]].messages_received = @ + 1,
                             !.pc[c] = "log",
                             !.done = V1NotDone]
             ELSE [v1 EXCEPT !.sent[c] = Append(@, "NACK"),
                             !.pc[c] = "log",
                             !.done = V1NotDone]
    /\ UNCHANGED v1Frame

\* lines 237-241: _log_transaction; when it raises, "except Exception"
\* calls _send_nack
V1Log(c, outcome) ==
    /\ v1.pc[c] = "log"
    /\ LET sent == IF outcome = "raises" THEN Append(v1.sent[c], "NACK") ELSE v1.sent[c]
       IN v1' = [v1 EXCEPT !.sent[c] = sent,
                           !.frame[c] = "none",
                           !.pc[c] = "recv",
                           !.done = [client |-> c, frame |-> v1.frame[c], sent |-> sent]]
    /\ UNCHANGED v1Frame

V1Step(c) ==
    \/ V1Accept(c)
    \/ V1StoreSession(c)
    \/ V1PeerCloses(c)
    \/ \E frame \in V1Frames : V1Recv(c, frame)
    \/ V1CountStore(c)
    \/ V1MsgId(c)
    \/ V1Verdict(c)
    \/ \E outcome \in V1LogOutcomes : V1Log(c, outcome)

(***************************************************************************)
(* The statements of v2's threads.  The clients send the builder's         *)
(* messages in order, so the trailer check passes and there is no gap.     *)
(***************************************************************************)
\* what no statement of a thread changes
threadFrame == <<fs, boots, detached, ctl, server, v1, v3, wire, last, nmsg, monVars>>

\* the sequence numbers the clients of the threads send
ThreadSeqs == 1..2

\* start_swift_server accepts and starts a thread; handle_client calls
\* get_session, which takes the lock
Accept(id) ==
    /\ thr.pc[id] = "closed"
    /\ conn[id] = "closed"
    /\ thr.lock = "free"
    /\ sessions' = get_session(sessions, id)
    /\ disk' = IF sessions[id] = NoSession
               THEN save_state(disk, sessions', message_log, "written").disk
               ELSE disk
    /\ conn' = [conn EXCEPT ![id] = "open"]
    /\ thr' = [thr EXCEPT !.pc[id] = "recv",
                          !.write = IF sessions[id] = NoSession THEN Write(id, id)
                                    ELSE @]
    /\ UNCHANGED <<error_mode, ignored_sequences, message_log, now, threadFrame>>

\* recv returns no data: the loop ends, the connection is closed
PeerCloses(id) ==
    /\ thr.pc[id] = "recv"
    /\ conn' = [conn EXCEPT ![id] = "closed"]
    /\ thr' = [thr EXCEPT !.pc[id] = "closed"]
    /\ UNCHANGED <<sessions, error_mode, ignored_sequences, message_log, now, disk,
                   threadFrame>>

\* lines 331-345: recv, parse_mt103, received_seq
Recv(id, seq) ==
    /\ thr.pc[id] = "recv"
    /\ seq = sessions[id].input_seq + 1
    /\ thr' = [thr EXCEPT !.pc[id] = "log_inbound", !.seq[id] = seq]
    /\ UNCHANGED <<sessions, error_mode, ignored_sequences, message_log, now, disk, conn,
                   threadFrame>>

\* log_message, "with self.lock:" entered
LogAcquire(id) ==
    /\ thr.pc[id] \in {"log_inbound", "log_nack", "log_ack"}
    /\ thr.lock = "free"
    /\ thr' = [thr EXCEPT !.lock = id]
    /\ UNCHANGED <<sessions, error_mode, ignored_sequences, message_log, now, disk, conn,
                   threadFrame>>

\* a "with self.lock:" that does not release the lock at its end
Released_never(id) == id

\* the end of "with self.lock:": the lock is released
Released(id) == "free"

\* log_message, the body and the end of "with self.lock:" (the entry is
\* kept without its session and direction, which no thread reads); handle_client
\* goes on after the call (lines 355, 415, 433)
LogRelease(id) ==
    /\ thr.lock = id
    /\ message_log' = log_message(message_log, "-", "-", now + 1)
    /\ now' = now + 1
    /\ disk' = save_state(disk, sessions, message_log', "written").disk
    /\ thr' = [thr EXCEPT !.lock = Released(id),
                          !.write = Write(id, thr.lock),
                          !.pc[id] = IF @ = "log_inbound" THEN "drop_test"
                                     ELSE IF @ = "log_nack" THEN "nack_finish"
                                     ELSE "recv"]
    /\ UNCHANGED <<sessions, error_mode, ignored_sequences, conn, threadFrame>>

\* line 359: if state.error_mode == 'drop_connection'
DropTest(id) ==
    /\ thr.pc[id] = "drop_test"
    /\ thr' = [thr EXCEPT !.access = Access(id, "error_mode", "read"),
                          !.pc[id] = IF error_mode = "drop_connection"
                                     THEN "drop_reset" ELSE "ignore_test"]
    /\ UNCHANGED <<sessions, error_mode, ignored_sequences, message_log, now, disk, conn,
                   threadFrame>>

\* lines 361-362 and 442: state.error_mode = None, break, conn.close()
DropReset(id) ==
    /\ thr.pc[id] = "drop_reset"
    /\ error_mode' = "none"
    /\ conn' = [conn EXCEPT ![id] = "closed"]
    /\ thr' = [thr EXCEPT !.access = Access(id, "error_mode", "write"),
                          !.fired["drop_connection"] = @ + 1,
                          !.pc[id] = "closed"]
    /\ UNCHANGED <<sessions, ignored_sequences, message_log, now, disk, threadFrame>>

\* line 401: if received_seq in state.ignored_sequences (the test of line
\* 380 does not read the list when there is no gap)
IgnoreTest(id) ==
    /\ thr.pc[id] = "ignore_test"
    /\ thr' = [thr EXCEPT !.access = Access(id, "ignored_sequences", "read"),
                          !.pc[id] = IF InList(thr.seq[id], ignored_sequences)
                                     THEN "ignore_remove" ELSE "nack_test"]
    /\ UNCHANGED <<sessions, error_mode, ignored_sequences, message_log, now, disk, conn,
                   threadFrame>>

\* line 403: state.ignored_sequences.remove(received_seq); list.remove
\* raises ValueError when another thread removed it first, and the handler
\* ends
IgnoreRemove(id) ==
    /\ thr.pc[id] = "ignore_remove"
    /\ ignored_sequences' = IF InList(thr.seq[id], ignored_sequences)
                            THEN ListRemove(ignored_sequences, thr.seq[id])
                            ELSE ignored_sequences
    /\ conn' = IF InList(thr.seq[id], ignored_sequences) THEN conn
               ELSE [conn EXCEPT ![id] = "closed"]
    /\ thr' = [thr EXCEPT !.access = Access(id, "ignored_sequences",
                                             IF InList(thr.seq[id], ignored_sequences)
                                             THEN "write" ELSE "raises"),
                          !.pc[id] = IF InList(thr.seq[id], ignored_sequences)
                                     THEN "recv" ELSE "closed"]
    /\ UNCHANGED <<sessions, error_mode, message_log, now, disk, threadFrame>>

\* line 408: if state.error_mode == 'nack_next'
NackTest(id) ==
    /\ thr.pc[id] = "nack_test"
    /\ thr' = [thr EXCEPT !.access = Access(id, "error_mode", "read"),
                          !.pc[id] = IF error_mode = "nack_next" THEN "nack_reset"
                                     ELSE "ack"]
    /\ UNCHANGED <<sessions, error_mode, ignored_sequences, message_log, now, disk, conn,
                   threadFrame>>

\* lines 410-412: state.error_mode = None, generate_nack, sendall
NackReset(id) ==
    /\ thr.pc[id] = "nack_reset"
    /\ error_mode' = "none"
    /\ sessions' = [sessions EXCEPT ![id] = IncrementOutputSeq(@)]
    /\ thr' = [thr EXCEPT !.access = Access(id, "error_mode", "write"),
                          !.fired["nack_next"] = @ + 1,
                          !.pc[id] = "log_nack"]
    /\ UNCHANGED <<ignored_sequences, message_log, now, disk, conn, threadFrame>>

\* lines 417-419: session['input_seq'] = received_seq, save_state, continue
NackFinish(id) ==
    /\ thr.pc[id] = "nack_finish"
    /\ sessions' = [sessions EXCEPT ![id].input_seq = thr.seq[id]]
    /\ disk' = save_state(disk, sessions', message_log, "written").disk
    /\ thr' = [thr EXCEPT !.pc[id] = "recv", !.write = Write(id, thr.lock)]
    /\ UNCHANGED <<error_mode, ignored_sequences, message_log, now, conn, threadFrame>>

\* lines 422-431: generate_ack, sendall, input_seq, save_state
Ack(id) ==
    /\ thr.pc[id] = "ack"
    /\ sessions' = [sessions EXCEPT ![id] =
                       [IncrementOutputSeq(@) EXCEPT !.input_seq = thr.seq[id]]]
    /\ disk' = save_state(disk, sessions', message_log, "written").disk
    /\ thr' = [thr EXCEPT !.pc[id] = "log_ack", !.write = Write(id, thr.lock)]
    /\ UNCHANGED <<error_mode, ignored_sequences, message_log, now, conn, threadFrame>>

\* do_POST /inject-error, lines 517-518: state.error_mode = error_type
PostErrorMode(error_type) ==
    /\ thr.injected[error_type] < MaxInjections
    /\ error_mode' = error_type
    /\ thr' = [thr EXCEPT !.access = Access("control", "error_mode", "write"),
                          !.injected[error_type] = @ + 1]
    /\ UNCHANGED <<sessions, ignored_sequences, message_log, now, disk, conn, threadFrame>>

\* do_POST /inject-error, lines 512-514: state.ignored_sequences.extend
PostIgnore(sequences) ==
    /\ thr.injected["ignore_sequence"] < MaxInjections
    /\ Len(ignored_sequences) + Len(sequences) <= MaxIgnored
    /\ ignored_sequences' = ignored_sequences \o sequences
    /\ thr' = [thr EXCEPT !.access = Access("control", "ignored_sequences", "write"),
                          !.injected["ignore_sequence"] = @ + 1]
    /\ UNCHANGED <<sessions, error_mode, message_log, now, disk, conn, threadFrame>>

ThreadStep(id) ==
    \/ Accept(id)
    \/ PeerCloses(id)
    \/ \E seq \in ThreadSeqs : Recv(id, seq)
    \/ LogAcquire(id)
    \/ LogRelease(id)
    \/ DropTest(id)
    \/ DropReset(id)
    \/ IgnoreTest(id)
    \/ IgnoreRemove(id)
    \/ NackTest(id)
    \/ NackReset(id)
    \/ NackFinish(id)
    \/ Ack(id)

\* the sequence the control client asks to ignore: ahead of a fresh
\* session's expected sequence, in order once sequence 1 was accepted
IgnoreChoices == {2}

Step(messages) ==
    \/ \E id \in SessionIds : Connect(id)
    \/ \E id \in SessionIds : Disconnect(id)
    \/ \E id \in SessionIds : \E message \in messages : Receive(id, message)
    \/ \E error_type \in {"nack_next", "drop_connection"} : InjectErrorMode(error_type)
    \/ \E k \in IgnoreChoices : InjectIgnore(<<k>>)

\* the sequence rules
Next == Step(InboundSeq)
Spec == Init /\ [][Next]_vars

\* the sequence rules, with the observer of error modes
InitMode == ServerInit /\ modeMon = ModeIdle /\ ignMon = IgnOff
              /\ gapfill = [id \in SessionIds |-> GapOff] /\ xconn = XOff
SpecMode == InitMode /\ [][Next]_vars

\* the sequence rules, with the observer of ignored sequences
InitIgnore == ServerInit /\ modeMon = ModeOff /\ ignMon = IgnIdle
                /\ gapfill = [id \in SessionIds |-> GapOff] /\ xconn = XOff
SpecIgnore == InitIgnore /\ [][Next]_vars

\* the sequence rules, with the observer of the gap-fill scenario
InitGapFill == ServerInit /\ modeMon = ModeOff /\ ignMon = IgnOff
                 /\ gapfill = [id \in SessionIds |-> GapIdle] /\ xconn = XOff
SpecGapFill == InitGapFill /\ [][Next]_vars

\* the sequence rules, with the observer of a client that changes connection
InitXConn == ServerInit /\ modeMon = ModeOff /\ ignMon = IgnOff
               /\ gapfill = [id \in SessionIds |-> GapOff] /\ xconn = XIdle
SpecXConn == InitXConn /\ [][Next]_vars

\* the trailer rules
NextTrailer == Step(InboundTrailer)
SpecTrailer == Init /\ [][NextTrailer]_vars

\* one client and the audit log: the messages are answered by an ACK, by a
\* Resend Request or by a trailer NACK
AuditId == "SESSION-A"
InboundAudit == {build_mt103("TEST-001", 1), build_mt103("TEST-001", 3),
                 ExtraBrace(build_mt103("TEST-001", 2))}
ReceiveAudit(id, message) == nmsg < AuditMsgs /\ Handle(id, message)
NextAudit ==
    \/ Connect(AuditId)
    \/ Disconnect(AuditId)
    \/ \E message \in InboundAudit : ReceiveAudit(AuditId, message)
SpecAudit == Init /\ [][NextAudit]_vars

\* one client, on a disk whose writes can fail
NextDisk ==
    \/ Connect(AuditId)
    \/ Disconnect(AuditId)
    \/ \E message \in InboundSeq : Receive(AuditId, message)
    \/ \E error_type \in {"nack_next", "drop_connection"} : InjectErrorMode(error_type)
    \/ DiskFails
    \/ DiskRepaired
SpecDisk == Init /\ [][NextDisk]_vars

\* the builder's messages for the first two sequence numbers
InboundStore == {build_mt103("TEST-001", seq) : seq \in 1..2}

\* the sequence rules for clients whose messages may arrive two in one read
InboundFraming ==
    InboundStore \cup {Joined(m1, m2) : m1 \in InboundStore, m2 \in InboundStore}
NextFraming == Step(InboundFraming)
SpecFraming == Init /\ [][NextFraming]_vars

\* two handler threads and the control plane, statement by statement
NextThreads ==
    \/ \E id \in SessionIds : ThreadStep(id)
    \/ \E error_type \in {"nack_next", "drop_connection"} : PostErrorMode(error_type)
    \/ \E k \in ThreadSeqs : PostIgnore(<<k>>)
SpecThreads == Init /\ [][NextThreads]_vars

\* the statements of a handler whose client sends in order, with no
\* sequence ignored and no connection dropped
LockStep(id) ==
    \/ Accept(id)
    \/ PeerCloses(id)
    \/ \E seq \in ThreadSeqs : Recv(id, seq)
    \/ LogAcquire(id)
    \/ LogRelease(id)
    \/ DropTest(id)
    \/ IgnoreTest(id)
    \/ NackTest(id)
    \/ NackReset(id)
    \/ NackFinish(id)
    \/ Ack(id)

\* two handler threads and the injection of nack_next
NextLock ==
    \/ \E id \in SessionIds : LockStep(id)
    \/ PostErrorMode("nack_next")
SpecLock == Init /\ [][NextLock]_vars

\* the statements of a handler that has a message in hand: all but accept
\* and recv, which wait for the peer
Running(id) ==
    \/ LogAcquire(id)
    \/ LogRelease(id)
    \/ DropTest(id)
    \/ DropReset(id)
    \/ IgnoreTest(id)
    \/ IgnoreRemove(id)
    \/ NackTest(id)
    \/ NackReset(id)
    \/ NackFinish(id)
    \/ Ack(id)

\* the threads, with the handler of one connection scheduled fairly: each
\* of its statements that can be executed is executed, and its writes of
\* the state file end.  The handler of the other connection may stay
\* suspended where it is, in recv or in the write of the state file that
\* log_message makes inside "with self.lock:"
ServedId == "SESSION-B"
SpecProgress == Init /\ [][NextThreads]_vars /\ WF_vars(Running(ServedId))

\* "finally: conn.close()" with every connection closed instead of the
\* handler's own
CloseOnError_all(c, id) == [i \in DOMAIN c |-> "closed"]

\* "except Exception ... finally: conn.close()" of handle_client: the
\* handler's own connection is closed
CloseOnError(c, id) == [c EXCEPT ![id] = "closed"]

\* the exchange record of a handler ended by an exception
Raised(id, message, pre, post) ==
    [id |-> id, msg |-> message, rule |-> "EXC", resp |-> None, closed |-> TRUE,
     pre |-> pre, post |-> post]

\* data.decode('utf-8') raises UnicodeDecodeError on bytes that are not
\* UTF-8: nothing is parsed or logged, the handler ends
ReceiveUndecodable(id) ==
    /\ conn[id] = "open"
    /\ nmsg < MaxMsgs
    /\ conn' = CloseOnError(conn, id)
    /\ detached' = [detached EXCEPT ![id] = NoSession]
    /\ last' = Raised(id, Blank,
                      Snapshot(SessionOf(id), error_mode, ignored_sequences),
                      Snapshot(SessionOf(id), error_mode, ignored_sequences))
    /\ nmsg' = nmsg + 1
    /\ ctl' = "none"
    /\ UNCHANGED <<sessions, error_mode, ignored_sequences, message_log, now, disk, fs,
                   boots, server, v1, v3, thr, wire, monVars>>

\* conn.sendall raises (the peer has reset the connection): the inbound
\* message is logged, the response is built (output_seq is incremented,
\* nack_next is consumed) and nothing after sendall is executed
ReceiveSendFails(id, message) ==
    LET attached == detached[id] = NoSession
        session == SessionOf(id)
        o == LoopBody(session, error_mode, ignored_sequences, message)
        built == [o.session EXCEPT !.input_seq = session.input_seq]
        log1 == log_message(message_log, id, "INBOUND", now + 1)
        calls == <<SaveCall(sessions, log1, session)>>
    IN
    /\ conn[id] = "open"
    /\ nmsg < MaxMsgs
    /\ Has(o.resp)
    /\ sessions' = IF attached THEN [sessions EXCEPT ![id] = built] ELSE sessions
    /\ detached' = [detached EXCEPT ![id] = NoSession]
    /\ error_mode' = o.error_mode
    /\ ignored_sequences' = o.ignored_sequences
    /\ message_log' = log1
    /\ now' = now + 1
    /\ \E outcomes \in OutcomesOf(calls) : disk' = SaveAll(disk, calls, outcomes, 1).disk
    /\ conn' = CloseOnError(conn, id)
    /\ last' = Raised(id, message,
                      Snapshot(session, error_mode, ignored_sequences),
                      Snapshot(built, o.error_mode, o.ignored_sequences))
    /\ nmsg' = nmsg + 1
    /\ ctl' = "none"
    /\ UNCHANGED <<fs, boots, server, v1, v3, thr, wire, monVars>>

\* the sequence rules, with handlers that end by an exception
NextErrors ==
    \/ Step(InboundStore)
    \/ \E id \in SessionIds : ReceiveUndecodable(id)
    \/ \E id \in SessionIds : \E message \in InboundStore : ReceiveSendFails(id, message)
SpecErrors == Init /\ [][NextErrors]_vars

\* the sequence rules for clients that also send a message without block 4
\* and the first segment of a message
InboundMalformed == InboundStore \cup {without_block4("TEST-001"), fragment}
NextMalformed == Step(InboundMalformed)
SpecMalformed == Init /\ [][NextMalformed]_vars

\* v1 with one client, whose handler is the only thread
InitV1 == Started /\ server = "v1" /\ MonitorsOff
NextV1Single == V1Step("c1")
SpecV1Single == InitV1 /\ [][NextV1Single]_vars

\* v1 with two clients, whose handler threads interleave
NextV1 == \E c \in V1Clients : V1Step(c)
SpecV1 == InitV1 /\ [][NextV1]_vars

\* the v3 clients that log in and send sequence 1
V3InboundStore == {data \in V3Inbound : data.login \/ data.f34 = Some(1)}

\* the v3 server with every simulation mode and the control plane's reset
InitV3 == Started /\ server = "v3" /\ MonitorsOff
NextV3 ==
    \/ V3Step(V3InboundStore, V3Modes)
    \/ V3Reset
SpecV3 == InitV3 /\ [][NextV3]_vars

\* either server, with the control plane's reset and restarts of the process
InitStore == Started /\ server \in {"v2", "v3"} /\ MonitorsOff
NextStore ==
    \/ server = "v2" /\ \E id \in SessionIds : Connect(id)
    \/ server = "v2" /\ \E id \in SessionIds : Disconnect(id)
    \/ server = "v2" /\ \E id \in SessionIds : \E message \in InboundStore :
                            Receive(id, message)
    \/ server = "v2" /\ InjectErrorMode("nack_next")
    \/ server = "v2" /\ Reset
    \/ server = "v2" /\ Restart
    \/ server = "v3" /\ V3Step(V3InboundStore, {"nack", "latency"})
    \/ server = "v3" /\ V3Reset
    \/ server = "v3" /\ V3Restart
SpecStore == InitStore /\ [][NextStore]_vars

(***************************************************************************)
(* The claims.                                                             *)
(***************************************************************************)
\* a loop iteration has just completed
Handled == last.rule # "none"

\* C1: on every session the :34: values of the responses sent (ACK, NACK
\* and Resend Request, in emission order) are 1, 2, 3, ...
C1_MonotoneOutputSeq ==
    \A id \in SessionIds : \A i \in 1..Len(wire[id]) : wire[id][i] = i

\* a Resend Request was just sent as the third response of its session
C1_Witness ==
    /\ last.rule = "R4"
    /\ Len(wire[last.id]) = 3

\* C2: no step leaves a session's input_seq lower than it was
C2_InputSeqNeverDecreases ==
    [][\A id \in SessionIds : sessions'[id].input_seq >= sessions[id].input_seq]_vars

\* C3: a message handled by the trailer NACK (R3), the Resend Request (R4)
\* or the ignore rule (R5) leaves the session's input_seq as it was
C3_NoAdvanceOnNackResendIgnore ==
    last.rule \in {"R3", "R4", "R5"} =>
        /\ last.post.session.input_seq = last.pre.session.input_seq
        /\ sessions[last.id].input_seq = last.pre.session.input_seq

\* a Resend Request was just sent on a session that had accepted a message
C3_Witness ==
    /\ last.rule = "R4"
    /\ last.pre.session.input_seq > 0

\* C4: when a and then a+2 arrive on a session with input_seq < a, the
\* first is answered with an ACK and the second with a Resend Request for
\* a+1..a+1; when a+1 then arrives with a valid trailer it is answered
\* with an ACK and input_seq becomes a+1
C4_GapFill ==
    \A id \in SessionIds :
        LET g == gapfill[id] IN
        /\ g.phase >= 1 => g.r1.kind = "ACK"
        /\ g.phase >= 2 => /\ g.r2.kind = "RESEND"
                           /\ g.r2.from = Some(g.a + 1)
                           /\ g.r2.to = Some(g.a + 1)
        /\ g.phase = 3 => /\ g.r3.kind = "ACK"
                          /\ g.input_seq_after = g.a + 1

\* C5: with no fault armed, a message with a valid trailer and sequence
\* input_seq + 1 is answered with exactly one ACK (:77E:ACK, :451:0) that
\* carries the inbound :20: and the incremented output_seq in :34:, and
\* input_seq is then that sequence
C5_HappyPath ==
    ( /\ Handled
      /\ NoFaultArmed(last)
      /\ BuilderTrailer(last.msg)
      /\ last.msg.f34 = Some(last.pre.session.input_seq + 1) )
    => /\ Has(last.resp)
       /\ Val(last.resp).f77E = Some("ACK")
       /\ Val(last.resp).f451 = Some("0")
       /\ Val(last.resp).f20 = last.msg.f20
       /\ Val(last.resp).f34 = Some(last.pre.session.output_seq + 1)
       /\ wire[last.id][Len(wire[last.id])] = last.pre.session.output_seq + 1
       /\ Len(wire[last.id]) = last.pre.session.output_seq + 1
       /\ sessions[last.id].output_seq = last.pre.session.output_seq + 1
       /\ sessions[last.id].input_seq = Val(last.msg.f34)

\* the builder's message with sequence 2 was just handled on a session
\* whose input_seq was 1, no fault armed
C5_Witness ==
    /\ Handled
    /\ NoFaultArmed(last)
    /\ last.msg = build_mt103("TEST-001", 2)
    /\ last.pre.session.input_seq = 1

\* C6: after nack_next is injected, the first message that reaches the
\* NACK/ACK decision is answered with a NACK carrying :451:7 and
\* :79:ADVERSARIAL_TEST, error_mode is then none, and the next such
\* message is answered with an ACK
C6_OneShotNack ==
    modeMon.mode = "nack_next" =>
        /\ modeMon.phase = 1 => error_mode = "nack_next"
        /\ modeMon.phase >= 2 =>
              /\ modeMon.first.v = [kind |-> "NACK", code |-> Some("7"),
                                    reason |-> Some("ADVERSARIAL_TEST")]
              /\ modeMon.first.mode_after = "none"
        /\ modeMon.phase = 3 => modeMon.second.kind = "ACK"

\* nack_next was injected and two messages have reached the decision since
C6_Witness ==
    /\ modeMon.mode = "nack_next"
    /\ modeMon.phase = 3

\* C7, as claimed: after [k] is injected, the first arrival of a message
\* with sequence k gets no response, removes k from ignored_sequences and
\* leaves input_seq as it was; the second arrival is not ignored
C7_FirstArrivalIgnored ==
    /\ ignMon.arrivals >= 1 =>
          /\ ignMon.arrival.kind = "NONE"
          /\ ignMon.arrival.removed
          /\ ignMon.arrival.input_seq_kept
    /\ ignMon.arrivals = 2 => ignMon.arrival2.rule # "R5"

\* C7, amended: the same of the first and second message with sequence k
\* that are neither dropped (R1) nor refused by the trailer check (R3);
\* the first is handled by the ignore rule also when k is ahead of
\* input_seq + 1
C7_IgnoredConsumption ==
    /\ ignMon.phase >= 2 =>
          /\ ignMon.first.rule = "R5"
          /\ ignMon.first.kind = "NONE"
          /\ ignMon.first.removed
          /\ ignMon.first.input_seq_kept
    /\ ignMon.phase = 3 => ignMon.second.rule \in {"R4", "R6", "R7"}

\* sequence 2 was injected, arrived ahead of the expected sequence and was
\* ignored, arrived again and was answered with a Resend Request
C7_Witness ==
    /\ ignMon.phase = 3
    /\ ignMon.k = 2
    /\ ignMon.second.rule = "R4"

\* C8: with drop_connection armed, the next message on any connection
\* closes that connection with no response, resets error_mode to none and
\* changes neither input_seq nor output_seq; the message after it is
\* handled by the other rules
C8_DropConnection ==
    modeMon.mode = "drop_connection" =>
        /\ modeMon.phase = 1 => error_mode = "drop_connection"
        /\ modeMon.phase >= 2 =>
              /\ modeMon.first.closed
              /\ modeMon.first.v.kind = "NONE"
              /\ modeMon.first.mode_after = "none"
              /\ modeMon.first.seqs_kept
        /\ modeMon.phase = 3 => modeMon.second.rule \in {"R3", "R4", "R5", "R6", "R7"}

\* drop_connection was injected, a connection was dropped and a later
\* message was acknowledged
C8_Witness ==
    /\ modeMon.mode = "drop_connection"
    /\ modeMon.phase = 3
    /\ modeMon.second.kind = "ACK"

\* the trailer's MAC or CHK is not the one the codec computes
TrailerMismatch(m) ==
    /\ m.tr.shape # "none"
    /\ \/ m.tr.mac # AppendBlock5(StripTrailer(m)).tr.mac
       \/ m.tr.chk # AppendBlock5(StripTrailer(m)).tr.chk

\* C9: a message whose block-5 MAC or CHK does not match it is answered
\* with a NACK (:77E:NACK, :451:5, a reason with "mismatch" or "Missing"),
\* and input_seq is unchanged
C9_InvalidTrailerNacked ==
    (Handled /\ NoFaultArmed(last) /\ TrailerMismatch(last.msg)) =>
        /\ Verdict(last.resp).kind = "NACK"
        /\ Verdict(last.resp).code = Some("5")
        /\ Verdict(last.resp).reason \in
              {Some("Checksum mismatch"), Some("MAC mismatch"),
               Some("Missing Block 5 trailer")}
        /\ sessions[last.id].input_seq = last.pre.session.input_seq

\* the messages of the last exchange that a builder produced
Built ==
    (IF Handled /\ BuilderTrailer(last.msg) THEN {last.msg} ELSE {})
      \cup (IF Has(last.resp) THEN {Val(last.resp)} ELSE {})

\* C10: validate_trailer accepts every message a builder produced, and
\* refuses it with a "mismatch" reason once one hex character of its MAC
\* or of its CHK is changed
C10_TrailerRoundTrip ==
    \A M \in Built :
        /\ validate_trailer(M).ok
        /\ validate_trailer(FlipMac(M)) = [ok |-> FALSE, reason |-> "MAC mismatch"]
        /\ validate_trailer(FlipChk(M)) = [ok |-> FALSE, reason |-> "Checksum mismatch"]

\* C14: a message with no field 34 that is acknowledged on a fresh session
\* (input_seq = 0) is accepted as sequence 1: input_seq is 1 afterwards
C14_MissingSeqIsOne ==
    ( /\ Handled
      /\ ~Has(last.msg.f34)
      /\ last.pre.session.input_seq = 0
      /\ Kind(last.resp) = "ACK" )
    => sessions[last.id].input_seq = 1

\* C15: when sequence a is sent on one connection and a+2 then on a newly
\* accepted connection, the response to a+2 is a Resend Request for
\* a+1..a+1
C15_GapAcrossConnections ==
    xconn.phase = 3 =>
        /\ xconn.r.kind = "RESEND"
        /\ xconn.r.from = Some(xconn.a + 1)
        /\ xconn.r.to = Some(xconn.a + 1)

\* C19: the session of a connection whose handler has exited is absent
\* from the sessions map or present with connected = false
C19_ClosedNotConnected ==
    \A id \in SessionIds :
        conn[id] = "closed" => (sessions[id] = NoSession \/ ~sessions[id].connected)

\* C12: right after the control plane's reset the sessions map and the audit
\* log are empty, no error mode is armed, no sequence is ignored (v3: no
\* simulation mode, latency 0), and the state file holds that empty state.
C12_ResetClears ==
    ctl = "reset" =>
        IF server = "v2"
        THEN /\ sessions = NoSessions
             /\ message_log = <<>>
             /\ error_mode = "none"
             /\ ignored_sequences = <<>>
             /\ disk = [status |-> "ok", sessions |-> NoSessions, message_log |-> <<>>]
        ELSE /\ v3.mock_state = V3Empty
             /\ v3.file = [status |-> "ok", mock_state |-> V3Empty,
                           sessions |-> [id \in SessionIds |-> V3NoSession]]

\* a reset of v2 while a handler that accepted a message is still running
C12_Witness ==
    /\ ctl = "reset"
    /\ server = "v2"
    /\ \E id \in SessionIds : detached[id] # NoSession /\ detached[id].input_seq > 0

\* C13: a restart of v2 loads every session with the input_seq and
\* output_seq it had, and a later connection with the same id keeps them.
\* A handler whose session a reset removed from the map is not a case of it.
C13_RestartKeepsSessions ==
    [][server = "v2" =>
         /\ boots' # boots =>
               \A id \in SessionIds :
                   detached[id] = NoSession =>
                       /\ sessions'[id].session_id = sessions[id].session_id
                       /\ sessions'[id].input_seq = sessions[id].input_seq
                       /\ sessions'[id].output_seq = sessions[id].output_seq
         /\ \A id \in SessionIds :
               conn[id] = "closed" /\ conn'[id] = "open" /\ sessions[id] # NoSession =>
                   /\ sessions'[id].input_seq = sessions[id].input_seq
                   /\ sessions'[id].output_seq = sessions[id].output_seq]_vars

\* after a restart a session goes on: sequence 2 is accepted
C13_Witness ==
    /\ server = "v2"
    /\ boots > 0
    /\ last.rule = "R7"
    /\ last.pre.session.input_seq = 1
    /\ last.post.session.input_seq = 2

\* the responses sent so far
Responses == Len(wire["SESSION-A"]) + Len(wire["SESSION-B"])

Least(a, b) == IF a < b THEN a ELSE b

\* C11 as stated: after N inbound messages the persisted audit log has
\* min(N, 1000) entries.
C11_CapByMessages ==
    disk.status = "ok" => Len(disk.message_log) = Least(nmsg, LogCap)

\* C11: the persisted audit log has one entry per inbound message and one
\* per response sent, and never more than the last 1000 of them.
C11_AuditCap ==
    /\ disk.status = "ok" =>
          /\ Len(disk.message_log) = Least(nmsg + Responses, LogCap)
          /\ disk.message_log # <<>> =>
                disk.message_log[Len(disk.message_log)].timestamp = nmsg + Responses
    /\ Len(message_log) <= LogCap

\* more than 1000 entries were appended and 1000 of them are in the file
C11_Witness ==
    /\ nmsg + Responses > LogCap
    /\ disk.status = "ok"
    /\ Len(disk.message_log) = LogCap
    /\ disk.message_log[1].timestamp = nmsg + Responses - LogCap + 1

\* C16: a message handled while writes of the state file fail gets the
\* response the loop body gives, the session is updated as the loop body
\* says, and the connection is closed only if the loop body closes it.
C16_SaveFailureSwallowed ==
    Handled /\ fs = "failing" =>
        LET o == LoopBody(last.pre.session, last.pre.error_mode,
                          last.pre.ignored_sequences, last.msg)
        IN /\ last.resp = o.resp
           /\ last.closed = o.closed
           /\ last.post.session = o.session
           /\ sessions[last.id] = o.session
           /\ conn[last.id] = IF o.closed THEN "closed" ELSE "open"

\* a message is acknowledged and the session advanced while the state
\* file was left without the new sequence numbers
C16_Witness ==
    /\ Handled
    /\ fs = "failing"
    /\ last.rule = "R7"
    /\ Has(last.resp)
    /\ conn[last.id] = "open"
    /\ sessions[last.id].input_seq = 2
    /\ \/ disk.status # "ok"
       \/ disk.sessions[last.id].input_seq # 2

\* C20: when one read holds two messages, only the first is consumed: it
\* is answered as it is when it arrives alone, and the second stays in the
\* buffer.
C20_FirstFrameConsumed ==
    Handled /\ last.msg.tr.shape = "joined" =>
        LET o == LoopBody(last.pre.session, last.pre.error_mode,
                          last.pre.ignored_sequences, FirstFrame(last.msg))
        IN /\ last.rule = o.rule
           /\ last.post.session = o.session
           /\ Has(last.resp) = Has(o.resp)
           /\ Has(o.resp) => Val(last.resp).f77E = Val(o.resp).f77E

\* C17: every read of error_mode or ignored_sequences by a handler and
\* every write of them by a handler or by the control plane is made by a
\* thread that holds the process-wide lock.
C17_FaultTableUnderLock ==
    thr.access.who # "none" => thr.access.locked

\* C18: with handlers running concurrently, no error mode is applied to
\* more messages than it was injected times: one injection of nack_next
\* gives at most one injected NACK, one of drop_connection at most one
\* closed connection.
C18_OneShotUnderConcurrency ==
    \A mode \in {"nack_next", "drop_connection"} : thr.fired[mode] <= thr.injected[mode]

\* C27: a message with sequence s on a session with input_seq = i that is
\* neither dropped nor trailer-NACKed gets a Resend Request exactly when
\* s > i + 1 and s is not in ignored_sequences; the request carries
\* from = i + 1 and to = s - 1 and leaves input_seq at i.
C27_ResendRule ==
    (Handled /\ last.rule \notin {"R1", "R3"}) =>
        LET s == ReceivedSeq(last)
            i == last.pre.session.input_seq
        IN /\ (Kind(last.resp) = "RESEND")
                 <=> (s > i + 1 /\ ~InList(s, last.pre.ignored_sequences))
           /\ (last.rule = "R4") <=> (Kind(last.resp) = "RESEND")
           /\ Kind(last.resp) = "RESEND" =>
                 /\ Val(last.resp).f7 = Some(i + 1)
                 /\ Val(last.resp).f16 = Some(s - 1)
                 /\ sessions[last.id].input_seq = i

\* sequence 1 was accepted and sequence 3 is answered by a Resend Request
\* for 2..2
C27_Witness ==
    /\ Handled
    /\ Kind(last.resp) = "RESEND"
    /\ last.pre.session.input_seq = 1
    /\ ReceivedSeq(last) = 3
    /\ Val(last.resp).f7 = Some(2)
    /\ Val(last.resp).f16 = Some(2)

\* C29: when nack_next turns a message with sequence s into a NACK,
\* input_seq is s afterwards, in memory and in the state file; a message
\* that declares input_seq + 1 and is neither dropped, trailer-NACKed nor
\* ignored is acknowledged once no mode is armed.
C29_InjectedNackAdvances ==
    /\ (Handled /\ last.rule = "R6") =>
          /\ Verdict(last.resp) = [kind |-> "NACK", code |-> Some("7"),
                                   reason |-> Some("ADVERSARIAL_TEST")]
          /\ sessions[last.id].input_seq = ReceivedSeq(last)
          /\ disk.status = "ok"
          /\ disk.sessions[last.id].input_seq = ReceivedSeq(last)
    /\ (Handled /\ last.rule \notin {"R1", "R3", "R5"} /\ last.pre.error_mode = "none"
          /\ ReceivedSeq(last) = last.pre.session.input_seq + 1) =>
          /\ last.rule = "R7"
          /\ Kind(last.resp) = "ACK"

\* sequence 2 was turned into a NACK and sequence 3 is acknowledged
C29_Witness ==
    /\ modeMon.mode = "nack_next"
    /\ modeMon.phase = 3
    /\ modeMon.second.rule = "R7"
    /\ Handled
    /\ ReceivedSeq(last) = 3
    /\ last.pre.session.input_seq = 2
    /\ Kind(last.resp) = "ACK"

\* C28: a message whose trailer does not match it and whose sequence is
\* ahead of input_seq + 1 is answered with the validation NACK (:451:5)
\* and not with a Resend Request, unless drop_connection closes the
\* connection first.
C28_ValidationBeforeGap ==
    ( /\ Handled
      /\ last.pre.error_mode # "drop_connection"
      /\ TrailerMismatch(last.msg)
      /\ ReceivedSeq(last) > last.pre.session.input_seq + 1 ) =>
        /\ last.rule = "R3"
        /\ Verdict(last.resp).kind = "NACK"
        /\ Verdict(last.resp).code = Some("5")

\* C25: a restart leaves the fault-injection state at its defaults: no
\* error mode and no ignored sequence in v2, no simulation mode and
\* latency 0 in v3, whatever was injected before.
C25_FaultStateNotPersisted ==
    [][boots' # boots =>
         IF server = "v2"
         THEN error_mode' = "none" /\ ignored_sequences' = <<>>
         ELSE /\ v3'.mock_state.simulation_mode = "none"
              /\ v3'.mock_state.latency_ms = 0]_vars

\* a message was handled by v3
V3Handled == v3.last.id # "" /\ v3.last.resp # V3LoginResponse

\* C26: in v3 a message is delayed exactly while the latency mode is set
\* and left unanswered exactly while the timeout mode is set; once the
\* mode is none or another one, or after reset, neither happens.
C26_LatencyUntilCleared ==
    V3Handled =>
        /\ v3.last.delayed <=> v3.mock_state.simulation_mode = "latency"
        /\ (v3.last.resp = V3NoResponse) <=> v3.mock_state.simulation_mode = "timeout"

\* C22: a framed message without block 4 is never acknowledged; when it is
\* answered, it is by a NACK with reason "malformed"; input_seq is left
\* as it was.
C22_NoBlock4NotAcked ==
    (Handled /\ NoBlock4(last.msg)) =>
        /\ Kind(last.resp) # "ACK"
        /\ Has(last.resp) => Verdict(last.resp).kind = "NACK"
                               /\ Verdict(last.resp).reason = Some("malformed")
        /\ sessions[last.id].input_seq = last.pre.session.input_seq

\* C21: while the bytes read on a connection are not a complete frame, the
\* handler sends no response and leaves the session as it was.
C21_NoResponseBeforeFrame ==
    (Handled /\ ~is_complete_message(last.msg)) =>
        /\ ~Has(last.resp)
        /\ sessions[last.id] = last.pre.session
        /\ last.post.session = last.pre.session

\* C23: a step in which the handler of one connection ends by an exception
\* closes that connection only: every other connection stays as it is, open
\* or closed, and keeps the session it had, in the map and in its handler.
C23_ErrorIsolation ==
    [][last'.rule = "EXC" =>
          /\ conn'[last'.id] = "closed"
          /\ \A other \in SessionIds \ {last'.id} :
                 /\ conn'[other] = conn[other]
                 /\ sessions'[other] = sessions[other]
                 /\ detached'[other] = detached[other]]_vars

C23_Witness ==
    /\ last.rule = "EXC"
    /\ last.post.session.output_seq > last.pre.session.output_seq
    /\ \E other \in SessionIds \ {last.id} :
           conn[other] = "open" /\ sessions[other].input_seq >= 1

\* C30: every call of save_state is made by a thread that holds the
\* process-wide lock, so no other thread is inside log_message or
\* get_session while the state file is written.
C30_SaveUnderLock ==
    thr.write.who # "none" => thr.write.locked

V3Handles(id) == nmsg' = nmsg + 1 /\ v3'.last.id = id

\* C33: while the simulation mode is timeout, a message gets no response,
\* leaves the session's sequences, the stored messages and message_count
\* as they were, and leaves the connection open.
C33_TimeoutSilent ==
    [][\A id \in SessionIds :
          (V3Handles(id) /\ v3.mock_state.simulation_mode = "timeout") =>
              /\ v3'.last.resp = V3NoResponse
              /\ v3'.ACTIVE_SESSIONS[id] = v3.ACTIVE_SESSIONS[id]
              /\ v3'.mock_state.messages = v3.mock_state.messages
              /\ v3'.mock_state.message_count = v3.mock_state.message_count
              /\ v3'.conn[id] = "open"]_vars

C33_Witness ==
    /\ V3Handled
    /\ v3.mock_state.simulation_mode = "timeout"
    /\ v3.last.resp = V3NoResponse
    /\ v3.last.pre.authenticated
    /\ v3.last.data.f34 = Some(v3.last.pre.incoming_sequence + 1)
    /\ v3.conn[v3.last.id] = "open"

\* what C32 says of the session flag: it is set only by a handled LOGIN, a
\* LOGIN leaves incoming_sequence alone, the flag stays set while the
\* connection is open, and no message of an unauthenticated session
\* advances incoming_sequence or gets an ACK or a NACK
HandshakeGate(id) ==
    LET before == v3.ACTIVE_SESSIONS[id]
        after == v3'.ACTIVE_SESSIONS[id]
    IN /\ (~before.authenticated /\ after.authenticated) =>
              (V3Handles(id) /\ v3'.last.data.login)
       /\ (V3Handles(id) /\ v3'.last.data.login) =>
              after.incoming_sequence = before.incoming_sequence
       /\ (before.authenticated /\ v3.conn[id] = "open" /\ v3'.conn[id] = "open") =>
              after.authenticated
       /\ (V3Handles(id) /\ ~before.authenticated) =>
              /\ after.incoming_sequence = before.incoming_sequence
              /\ v3'.last.resp.kind \notin {"ACK", "NACK"}

C35_ResendRangeWellFormed ==
    (V3Handled /\ v3.last.resp.kind = "RESEND") =>
        /\ Val(v3.last.resp.begin) <= Val(v3.last.resp.end)
        /\ extract_sequence_number(v3.last.data) > v3.last.pre.incoming_sequence + 1

\* the timestamp of the entry appended last, 0 for an empty log
Newest(log) == IF log = <<>> THEN 0 ELSE log[Len(log)].timestamp

\* C34: the in-memory message_log never holds more than 1000 entries; a
\* step that handles a message leaves the entry it appended last at the
\* end of the log; and whenever the log changes, the new log is the old
\* one with k entries appended at the end and d entries dropped from the
\* front, d > 0 only when the log is full.
C34_LogBound ==
    [][/\ Len(message_log') <= LogCap
       /\ nmsg' = nmsg + 1 => Newest(message_log') > Newest(message_log)
       /\ message_log' # message_log =>
             LET k == Newest(message_log') - Newest(message_log)
                 d == Len(message_log) + k - Len(message_log')
             IN /\ k >= 1 /\ k <= Len(message_log')
                /\ d >= 0
                /\ d > 0 => Len(message_log') = LogCap
                /\ \A i \in 1..(Len(message_log') - k) :
                       message_log'[i] = message_log[i + d]
                /\ \A i \in (Len(message_log') - k + 1)..Len(message_log') :
                       message_log'[i].timestamp =
                          Newest(message_log) + i - (Len(message_log') - k)]_vars

C34_Witness ==
    /\ Len(message_log) = LogCap
    /\ message_log[1].timestamp > 1
    /\ message_log[LogCap].timestamp = now

\* C38: every connection of v2 with a running handler has the session
\* dict its handler works on in the sessions map, also after a reset made
\* while the connection is open.
C38_LiveSessionsVisible ==
    server = "v2" =>
        \A id \in SessionIds :
            conn[id] = "open" =>
                /\ sessions[id] # NoSession
                /\ sessions[id] = SessionOf(id)

\* the entries of the log for one session and one direction
EntriesOf(id, direction) ==
    {i \in 1..Len(message_log) :
        message_log[i].session_id = id /\ message_log[i].direction = direction}

\* C37: without reset and truncation, every message handled has one
\* INBOUND entry, every response sent has one OUTBOUND entry, which comes
\* after the INBOUND entry of the message it answers, and the OUTBOUND
\* entries of a session are as many as its output_seq.
C37_LogMatchesWire ==
    /\ Cardinality(UNION {EntriesOf(id, "INBOUND") : id \in SessionIds}) = nmsg
    /\ \A id \in SessionIds :
          /\ Cardinality(EntriesOf(id, "OUTBOUND")) = Len(wire[id])
          /\ sessions[id] # NoSession =>
                 Cardinality(EntriesOf(id, "OUTBOUND")) = sessions[id].output_seq
          /\ \A i \in EntriesOf(id, "OUTBOUND") :
                 i > 1 /\ message_log[i - 1] = Entry(id, "INBOUND", message_log[i].timestamp - 1)
    /\ Handled /\ Has(last.resp) =>
          /\ message_log[Len(message_log)] = Entry(last.id, "OUTBOUND", now)
          /\ Val(Val(last.resp).f34) = Cardinality(EntriesOf(last.id, "OUTBOUND"))

C37_Witness ==
    /\ Handled
    /\ \E id \in SessionIds :
          /\ Cardinality(EntriesOf(id, "OUTBOUND")) = 2
          /\ Cardinality(EntriesOf(id, "INBOUND")) = 3
          /\ sessions[id].output_seq = 2
    /\ Len(message_log) = 5

\* C39: a frame of v1 whose processing has ended was answered with exactly
\* one response, an ACK or a NACK, also when the transaction log could
\* not be written; and messages_received of a connection's session is the
\* number of ACKs sent on the connection.
C39_OneVerdict ==
    /\ v1.done.client # "" => Len(v1.done.sent) = 1
    /\ \A c \in V1Clients :
          v1.pc[c] \in {"recv", "count_store", "msg_id", "verdict", "log"} =>
              v1.sessions[v1.session_id[c]].messages_received = v1.acks[c]

\* the elements of a sequence are pairwise distinct
Distinct(seq) == \A i, j \in 1..Len(seq) : i # j => seq[i] # seq[j]

\* C40: the session ids given to connections are pairwise distinct, the
\* message ids given to frames are pairwise distinct, and the session
\* entry of a connection is the one its own handler stored.
C40_UniqueIds ==
    /\ Distinct(v1.session_ids)
    /\ Distinct(v1.msg_ids)
    /\ \A c \in V1Clients :
          v1.pc[c] \in {"recv", "count_store", "msg_id", "verdict", "log"} =>
              v1.sessions[v1.session_id[c]].owner = c

\* the statements of handle_client that receive from or send on the
\* connection socket: recv (line 331), sendall of the injected NACK (line
\* 412) and sendall of the ACK (line 423)
NetworkIO(id) ==
    /\ thr.pc[id] \in {"recv", "nack_reset", "ack"}
    /\ thr'.pc[id] # thr.pc[id]

C36_IgnoreRaceFree ==
    thr.access.kind # "raises"

====
